---- MODULE Spec2Model ----
(***************************************************************************)
(* State-machine model of the EeeBee tutoring chat assistant               *)
(* (src/eeebee.py): the Streamlit session state, the teacher / student     *)
(* numbered-selection command router, the transcript and the remote calls. *)
(*                                                                         *)
(* One action is one script run triggered by one widget event (a login, a  *)
(* chat input, another widget interaction, logout).  st.rerun() ends the   *)
(* run that calls it and immediately starts a run without any widget       *)
(* event; that follow-up run is folded into the action that requested it.  *)
(***************************************************************************)
EXTENDS Integers, Sequences, FiniteSets, TLC

VARIABLES
    session_state,   \* st.session_state: attribute name -> value
    client,          \* module-level OpenAI client (FALSE when the API key is missing)
    run,             \* what the latest script run did: input, route, remote calls, exception
    shown,           \* the listing displayed last in this session: its kind and input list
    tab,             \* the student's tabbed screen: loaded data and the gap-analyzer table
    dash,            \* the teacher dashboard: recorded batch and its concept data
    doc              \* the document assistant (test.py): its own session state

vars == <<session_state, client, run, shown, tab, dash, doc>>

(***************************************************************************)
(* Bounds of the model.                                                    *)
(***************************************************************************)
\* number of user turns one session's transcript may hold
MaxInputs == 2
\* number of students in a roster returned by the backend
MaxStudents == 2
\* number of chunks in one LLM stream
MaxChunks == 2

(***************************************************************************)
(* Python values.                                                          *)
(***************************************************************************)
\* None / a present value, for attributes that are None or an object
None == <<>>
Some(v) == <<v>>

\* str.lower() on one character
LowerChar(c) ==
    CASE c = "A" -> "a" [] c = "B" -> "b" [] c = "C" -> "c" [] c = "D" -> "d"
      [] c = "E" -> "e" [] c = "F" -> "f" [] c = "G" -> "g" [] c = "H" -> "h"
      [] c = "I" -> "i" [] c = "J" -> "j" [] c = "K" -> "k" [] c = "L" -> "l"
      [] c = "M" -> "m" [] c = "N" -> "n" [] c = "O" -> "o" [] c = "P" -> "p"
      [] c = "Q" -> "q" [] c = "R" -> "r" [] c = "S" -> "s" [] c = "T" -> "t"
      [] c = "U" -> "u" [] c = "V" -> "v" [] c = "W" -> "w" [] c = "X" -> "x"
      [] c = "Y" -> "y" [] c = "Z" -> "z" [] OTHER -> c

\* str.lower()
RECURSIVE Lower(_)
Lower(s) ==
    IF Len(s) = 0 THEN ""
    ELSE LowerChar(SubSeq(s, 1, 1)) \o Lower(SubSeq(s, 2, Len(s)))

\* the Python test `sub in s` on strings
Contains(sub, s) ==
    \E i \in 1..(Len(s) - Len(sub) + 1) : SubSeq(s, i, i + Len(sub) - 1) = sub

\* str(n) for n >= 0
Digit(d) ==
    CASE d = 0 -> "0" [] d = 1 -> "1" [] d = 2 -> "2" [] d = 3 -> "3"
      [] d = 4 -> "4" [] d = 5 -> "5" [] d = 6 -> "6" [] d = 7 -> "7"
      [] d = 8 -> "8" [] d = 9 -> "9"

RECURSIVE Str(_)
Str(n) == IF n < 10 THEN Digit(n) ELSE Str(n \div 10) \o Digit(n % 10)

\* "sep".join(list)
RECURSIVE Join(_, _)
Join(sep, list) ==
    IF Len(list) = 0 THEN ""
    ELSE IF Len(list) = 1 THEN list[1]
    ELSE list[1] \o sep \o Join(sep, Tail(list))

\* {str(i+1): x for i, x in enumerate(list)}
Numbered(list) ==
    [t \in {Str(i) : i \in 1..Len(list)} |->
        list[CHOOSE i \in 1..Len(list) : Str(i) = t]]

\* f"{x:.1f}" for x = num / den * 100, den > 0
Percent1(num, den) ==
    LET tenths == (num * 1000 + den \div 2) \div den
    IN  Str(tenths \div 10) \o "." \o Digit(tenths % 10)

(***************************************************************************)
(* st.session_state as a dictionary.                                       *)
(***************************************************************************)
hasattr(s, key) == key \in DOMAIN s

setattr(s, key, value) ==
    [k \in (DOMAIN s) \cup {key} |-> IF k = key THEN value ELSE s[k]]

delattr(s, key) == [k \in (DOMAIN s) \ {key} |-> s[k]]

\* a clean-up of the superseded numbering that drops the pinned roster too
discard_and_unpin(s, key) ==
    [k \in (DOMAIN s) \ {key, "current_batch_students"} |-> s[k]]

\* a clean-up that leaves the superseded numbering in place
discard_nothing(s, key) == s

\* if hasattr(st.session_state, key): delattr(st.session_state, key)
discard(s, key) == IF hasattr(s, key) THEN delattr(s, key) ELSE s

\* a transcript turn: the tuple (role, content)
Turn(role, content) == <<role, content>>

\* a transcript write that replaces the history instead of extending it
append_chat_overwrite(s, role, content) ==
    setattr(s, "chat_history", << Turn(role, content) >>)

append_chat(s, role, content) ==
    setattr(s, "chat_history", Append(s["chat_history"], Turn(role, content)))

\* st.session_state.clear()
Cleared == [k \in {} |-> None]

\* top of the script: every key that is missing gets its default
InitDefaults(s) ==
    LET defaults == [auth_data              |-> None,
                     is_authenticated       |-> FALSE,
                     chat_history           |-> <<>>,
                     is_teacher             |-> FALSE,
                     topic_id               |-> None,
                     is_english_mode        |-> FALSE,
                     student_learning_paths |-> <<>>,
                     student_weak_concepts  |-> <<>>,
                     user_id                |-> None,
                     subject_id             |-> None,
                     selected_student       |-> None]
    IN  [k \in (DOMAIN s) \cup (DOMAIN defaults) |->
            IF k \in DOMAIN s THEN s[k] ELSE defaults[k]]

(***************************************************************************)
(* Remote Data Gateway: requests and the responses the backend can give.   *)
(***************************************************************************)
TopicID == 101
OrgCode == "012"

Batch(id, name, count) == [BatchID |-> id, BatchName |-> name, StudentCount |-> count]

Student(id, name, cleared, total) ==
    [UserID |-> id, FullName |-> name,
     ClearedConceptCount |-> cleared, TotalConceptCount |-> total]

Concept(id, text) == [ConceptID |-> id, ConceptText |-> text]

\* students the backend knows: one per progress group, two of them sharing a
\* display name
StudentPool ==
    { Student(11, "Asha", 2, 2), Student(12, "Ravi", 1, 2), Student(13, "Asha", 0, 2) }

\* Students arrays of a roster response: no student twice
Rosters ==
    { r \in UNION { [1..n -> StudentPool] : n \in 0..MaxStudents } :
        \A i, j \in DOMAIN r : i # j => r[i] # r[j] }

\* Concepts array of a roster response
ClassConcepts ==
    << [ConceptText |-> "Fractions", ClearedStudentCount |-> 1, AttendedStudentCount |-> 2] >>

\* what fetch_student_info returns: None after any exception, else the JSON body
StudentInfoResponses ==
    { None } \cup { Some([Students |-> r, Concepts |-> ClassConcepts]) : r \in Rosters }

ConceptDetail(text, attended, correct, pct, avg, total) ==
    [ConceptText |-> text, AttendedQuestion |-> attended, CorrectQuestion |-> correct,
     AvgMarksPercent |-> pct, AvgTimeTaken_SS |-> avg, TotalTimeTaken_SS |-> total]

\* what fetch_student_concepts returns: None after any exception, else the JSON body
StudentConceptsResponses ==
    { None,
      Some([WeakConcepts_List |-> <<>>, ClearedConcepts_List |-> <<>>]),
      Some([WeakConcepts_List |-> << ConceptDetail("Fractions", 4, 1, 25, 30, 120) >>,
            ClearedConcepts_List |-> << ConceptDetail("Decimals", 0, 0, 0, 0, 0) >>]) }

\* the request fetch_student_info posts
StudentInfoRequest(batch_id, topic_id, org_code) ==
    [api |-> "API_STUDENT_INFO", id |-> batch_id, topic |-> topic_id, org |-> org_code]

\* the request fetch_student_concepts posts
StudentConceptsRequest(user_id, topic_id, org_code) ==
    [api |-> "API_STUDENT_CONCEPTS", id |-> user_id, topic |-> topic_id, org |-> org_code]

(***************************************************************************)
(* Teacher command handlers.  A handler returns the new session state, the *)
(* reply text (None when it returns None), the requests it issued, and     *)
(* whether it raised.                                                      *)
(***************************************************************************)
Handled(s, response, route, entity, calls, raised, listed) ==
    [s |-> s, response |-> response, route |-> route, entity |-> entity,
     calls |-> calls, raised |-> raised, listed |-> listed]

\* a listing: the kind of entity listed and the list it was built from
Listing(kind, entities) == Some([kind |-> kind, entities |-> entities])

org_code_of(s) == s["auth_data"][1].UserInfo[1][1].OrgCode

is_completed(student) == student.ClearedConceptCount = student.TotalConceptCount
is_in_progress(student) == ~is_completed(student) /\ student.ClearedConceptCount > 0
is_no_progress(student) == ~is_completed(student) /\ ~(student.ClearedConceptCount > 0)

progress_info(student) ==
    " (" \o Str(student.ClearedConceptCount) \o "/" \o Str(student.TotalConceptCount)
         \o " concepts cleared)"

\* a grouping that leaves out the students without progress
grouped_students_without_no_progress(all_students) ==
    SelectSeq(all_students, is_completed)
        \o SelectSeq(all_students, is_in_progress)

\* a grouping that keeps the roster order
grouped_students_in_roster_order(all_students) == all_students

\* the order in which handle_batch_selection numbers the roster
grouped_students(all_students) ==
    SelectSeq(all_students, is_completed)
        \o SelectSeq(all_students, is_in_progress)
        \o SelectSeq(all_students, is_no_progress)

\* one "<index>. <name>" row of handle_batch_selection
student_row(index, student) ==
    Str(index) \o ". " \o student.FullName
        \o (IF is_in_progress(student) THEN progress_info(student) ELSE "") \o "\n\n"

\* the rows of one group, numbered from `first`
RECURSIVE group_rows(_, _)
group_rows(first, students) ==
    IF Len(students) = 0 THEN ""
    ELSE student_row(first, students[1]) \o group_rows(first + 1, Tail(students))

concept_stat(concept) ==
    "- " \o concept.ConceptText \o ": " \o Str(concept.ClearedStudentCount) \o "/"
         \o Str(concept.AttendedStudentCount) \o " students cleared ("
         \o (IF concept.AttendedStudentCount > 0
             THEN Percent1(concept.ClearedStudentCount, concept.AttendedStudentCount)
             ELSE "0.0")
         \o "%)"

handle_batch_selection(s, selected_batch, student_info) ==
    LET call == StudentInfoRequest(selected_batch.BatchID, s["topic_id"][1], org_code_of(s))
    IN  IF student_info # None /\ Len(student_info[1].Students) > 0
        THEN LET all_students == student_info[1].Students
                 concepts     == student_info[1].Concepts
                 completed    == SelectSeq(all_students, is_completed)
                 in_progress  == SelectSeq(all_students, is_in_progress)
                 no_progress  == SelectSeq(all_students, is_no_progress)
                 s1 == setattr(s, "current_batch_students", all_students)
                 s2 == setattr(s1, "current_batch_concepts", concepts)
                 s3 == setattr(s2, "numbered_students", Numbered(grouped_students(all_students)))
                 s4 == discard(s3, "numbered_batches")
                 student_list ==
                     "Students in this class:\n\n"
                     \o (IF Len(completed) > 0
                         THEN "Completed all concepts:\n\n"
                              \o group_rows(1, completed) \o "\n"
                         ELSE "")
                     \o (IF Len(in_progress) > 0
                         THEN "In progress:\n\n"
                              \o group_rows(1 + Len(completed), in_progress) \o "\n"
                         ELSE "")
                     \o (IF Len(no_progress) > 0
                         THEN "No concepts cleared:\n\n"
                              \o group_rows(1 + Len(completed) + Len(in_progress), no_progress)
                              \o "\n"
                         ELSE "")
                     \o "Just type the number or name of a student to analyze their progress"
                 response ==
                     "Looking at class " \o selected_batch.BatchName \o ":\n\n"
                     \o "Class Overview:\n\n"
                     \o "- Total Students: " \o Str(Len(all_students)) \o "\n"
                     \o "- Concepts Coverage:\n"
                     \o Join("\n", [i \in DOMAIN concepts |-> concept_stat(concepts[i])])
                     \o "\n\n" \o student_list
             IN  Handled(s4, Some(response), "batch", Some(selected_batch), <<call>>, FALSE,
                         Listing("student", all_students))
        ELSE Handled(s,
                     Some("I couldn't get the student information for this class. Please try again."),
                     "batch", Some(selected_batch), <<call>>, FALSE, None)

\* format_time, as redefined last in the file
format_time(seconds) ==
    IF seconds = 0 THEN "N/A"
    ELSE IF seconds \div 60 > 0
         THEN Str(seconds \div 60) \o "m " \o Str(seconds % 60) \o "s"
         ELSE Str(seconds % 60) \o "s"

\* format_concept_details, as redefined last in the file
format_concept_details(concept) ==
    IF concept.AttendedQuestion = 0
    THEN "- " \o concept.ConceptText \o "\n  Not attempted any questions yet"
    ELSE "- " \o concept.ConceptText \o "\n"
         \o "  Questions: " \o Str(concept.CorrectQuestion) \o "/"
         \o Str(concept.AttendedQuestion) \o " correct ("
         \o Str(concept.AvgMarksPercent) \o "%)\n"
         \o "  Average time per question: " \o format_time(concept.AvgTimeTaken_SS) \o "\n"
         \o "  Total time spent: " \o format_time(concept.TotalTimeTaken_SS)

RECURSIVE SumOf(_, _)
SumOf(list, field) ==
    IF Len(list) = 0 THEN 0 ELSE list[1][field] + SumOf(Tail(list), field)

handle_student_selection(s, selected_student, student_concepts) ==
    LET s1   == setattr(s, "selected_student", Some(selected_student))
        call == StudentConceptsRequest(selected_student.UserID, s["topic_id"][1], org_code_of(s))
    IN  IF student_concepts = None
        \* student_concepts.get(...) on None: AttributeError, after the
        \* assignment of selected_student and before any reply is built
        THEN Handled(s1, None, "student", Some(selected_student), <<call>>, TRUE, None)
        ELSE LET weak      == student_concepts[1].WeakConcepts_List
                 cleared   == student_concepts[1].ClearedConcepts_List
                 attempted == SelectSeq(weak \o cleared, LAMBDA c : c.AttendedQuestion > 0)
                 total_questions == SumOf(attempted, "AttendedQuestion")
                 total_correct   == SumOf(attempted, "CorrectQuestion")
                 total_time      == SumOf(attempted, "TotalTimeTaken_SS")
                 response ==
                     "Looking at " \o selected_student.FullName \o "'s progress:\n\n"
                     \o "Overall Performance:\n"
                     \o "- Progress: "
                     \o (IF selected_student.TotalConceptCount > 0
                         THEN Percent1(selected_student.ClearedConceptCount,
                                       selected_student.TotalConceptCount)
                         ELSE "0.0")
                     \o "%\n"
                     \o (IF Len(attempted) > 0
                         THEN "- Overall Accuracy: "
                              \o (IF total_questions > 0
                                  THEN Percent1(total_correct, total_questions) ELSE "0.0")
                              \o "%\n"
                              \o "- Total Questions Attempted: " \o Str(total_questions) \o "\n"
                              \o "- Total Time Spent: " \o format_time(total_time) \o "\n"
                         ELSE "")
                     \o "\nConcepts Needing Attention:\n"
                     \o (IF Len(weak) > 0
                         THEN Join("\n", [i \in DOMAIN weak |-> format_concept_details(weak[i])])
                              \o "\n"
                         ELSE "No weak concepts identified\n")
                     \o "\nMastered Concepts:\n"
                     \o (IF Len(cleared) > 0
                         THEN Join("\n", [i \in DOMAIN cleared |->
                                              format_concept_details(cleared[i])]) \o "\n"
                         ELSE "No concepts cleared yet\n")
                     \o "\nYou can ask me about:\n"
                     \o "- Specific teaching strategies for concepts they're struggling with\n"
                     \o "- How to improve their accuracy and speed\n"
                     \o "- Ways to help them progress in specific concepts\n"
                     \o "- Detailed analysis of their performance in any concept"
             IN  Handled(s1, Some(response), "student", Some(selected_student), <<call>>, FALSE,
                         None)

\* next((b for b in batches if b['BatchName'].lower() == input_lower), None)
first_batch_named(batches, input_lower) ==
    LET hits == SelectSeq(batches, LAMBDA b : Lower(b.BatchName) = input_lower)
    IN  IF Len(hits) = 0 THEN None ELSE Some(hits[1])

\* next((s for s in students if s['FullName'].lower() == input_lower), None)
first_student_named(students, input_lower) ==
    LET hits == SelectSeq(students, LAMBDA st : Lower(st.FullName) = input_lower)
    IN  IF Len(hits) = 0 THEN None ELSE Some(hits[1])

ShowClassesCommands == {"show classes", "show batches", "list classes", "list batches"}

\* the grouped listing of "show students": rows keep their list index
progress_group(student) ==
    IF is_completed(student) THEN "all_cleared"
    ELSE IF is_in_progress(student) THEN "partial_progress" ELSE "no_progress"

show_students_rows(students, group) ==
    LET idx == SelectSeq([i \in DOMAIN students |-> i],
                         LAMBDA i : progress_group(students[i]) = group)
    IN  [k \in DOMAIN idx |->
            Str(idx[k]) \o ". " \o students[idx[k]].FullName
                \o (IF group = "partial_progress"
                    THEN progress_info(students[idx[k]]) ELSE "")]

handle_teacher_commands(s, user_input, student_info, student_concepts) ==
    LET input_lower == Lower(user_input)
        batches     == s["auth_data"][1].BatchList
        by_batch_name == first_batch_named(batches, input_lower)
        by_student_name ==
            IF hasattr(s, "current_batch_students")
            THEN first_student_named(s["current_batch_students"], input_lower)
            ELSE None
    IN  \* Show classes
        IF \E cmd \in ShowClassesCommands : Contains(cmd, input_lower)
        THEN LET s1 == setattr(s, "numbered_batches", Numbered(batches))
                 s2 == discard(s1, "numbered_students")
                 batch_list ==
                     Join("\n", [i \in DOMAIN batches |->
                                    Str(i) \o ". " \o batches[i].BatchName \o " ("
                                    \o Str(batches[i].StudentCount) \o " students)"])
             IN  Handled(s2,
                         Some("Your classes:\n\n" \o batch_list
                              \o "\n\nJust type the number or name of the class you want to analyze."),
                         "list_classes", None, <<>>, FALSE, Listing("class", batches))
        \* a number corresponding to a batch
        ELSE IF hasattr(s, "numbered_batches") /\ user_input \in DOMAIN s["numbered_batches"]
        THEN handle_batch_selection(s, s["numbered_batches"][user_input], student_info)
        \* a batch name
        ELSE IF by_batch_name # None
        THEN handle_batch_selection(s, by_batch_name[1], student_info)
        \* Show students in current class
        ELSE IF /\ Contains("show students", input_lower) \/ Contains("list students", input_lower)
                /\ hasattr(s, "current_batch_students")
        THEN LET students == s["current_batch_students"]
                 s1 == setattr(s, "numbered_students", Numbered(students))
                 s2 == discard(s1, "numbered_batches")
                 all_cleared      == show_students_rows(students, "all_cleared")
                 partial_progress == show_students_rows(students, "partial_progress")
                 no_progress      == show_students_rows(students, "no_progress")
                 response ==
                     "Students in this class:\n\n"
                     \o (IF Len(all_cleared) > 0
                         THEN "Completed all concepts:\n" \o Join("\n", all_cleared) \o "\n\n"
                         ELSE "")
                     \o (IF Len(partial_progress) > 0
                         THEN "In progress:\n" \o Join("\n", partial_progress) \o "\n\n"
                         ELSE "")
                     \o (IF Len(no_progress) > 0
                         THEN "No concepts cleared:\n" \o Join("\n", no_progress) \o "\n\n"
                         ELSE "")
                     \o "Just type the number or name of a student to analyze their progress"
             IN  Handled(s2, Some(response), "list_students", None, <<>>, FALSE,
                         Listing("student", students))
        \* a number corresponding to a student
        ELSE IF hasattr(s, "numbered_students") /\ user_input \in DOMAIN s["numbered_students"]
        THEN handle_student_selection(s, s["numbered_students"][user_input], student_concepts)
        \* a student name
        ELSE IF by_student_name # None
        THEN handle_student_selection(s, by_student_name[1], student_concepts)
        ELSE Handled(s, None, "none", None, <<>>, FALSE, None)

(***************************************************************************)
(* Student listings.                                                       *)
(***************************************************************************)
ConceptListCommands == {"list concepts", "show concepts", "available concepts"}
GapsListCommands == {"learning gaps", "show gaps", "my gaps"}

NoConceptsMessage ==
    "I don't have any concepts available for your current topic. Please check with your teacher."

NoGapsMessage ==
    "Great news! I don't see any significant learning gaps in your current topic. If you'd like to review any concept, use the 'show concepts' command to see all available concepts."

\* returns the new session state and the message
generate_student_concept_list(s) ==
    LET concept_list == s["auth_data"][1].ConceptList
        weak         == s["auth_data"][1].WeakConceptList
        is_weak(c)   == \E i \in DOMAIN weak : weak[i].ConceptID = c.ConceptID
        row(i) == Str(i) \o ". " \o (IF is_weak(concept_list[i]) THEN "(weak)" ELSE "(ok)")
                  \o " " \o concept_list[i].ConceptText \o "\n"
    IN  IF Len(concept_list) = 0
        THEN [s |-> s, message |-> NoConceptsMessage]
        ELSE [s |-> setattr(s, "numbered_concepts", Numbered(concept_list)),
              message |-> "**Available Concepts:**\n\n"
                          \o Join("", [i \in DOMAIN concept_list |-> row(i)])
                          \o "\nTo learn about any concept, just type its number!"]

\* a gaps listing without the early return for an empty list
generate_student_gaps_list_unguarded(s) ==
    LET weak_concepts == s["auth_data"][1].WeakConceptList
        row(i) == Str(i) \o ". " \o weak_concepts[i].ConceptText \o "\n"
    IN  [s |-> setattr(s, "numbered_gaps", Numbered(weak_concepts)),
         message |-> "**Your Current Learning Gaps:**\n\n"
                     \o Join("", [i \in DOMAIN weak_concepts |-> row(i)])
                     \o "\nTo get help with any of these concepts, just type its number!"]

\* returns the new session state and the message
generate_student_gaps_list(s) ==
    LET weak_concepts == s["auth_data"][1].WeakConceptList
        row(i) == Str(i) \o ". " \o weak_concepts[i].ConceptText \o "\n"
    IN  IF Len(weak_concepts) = 0
        THEN [s |-> s, message |-> NoGapsMessage]
        ELSE [s |-> setattr(s, "numbered_gaps", Numbered(weak_concepts)),
              message |-> "**Your Current Learning Gaps:**\n\n"
                          \o Join("", [i \in DOMAIN weak_concepts |-> row(i)])
                          \o "\nTo get help with any of these concepts, just type its number!"]

(***************************************************************************)
(* LLM gateway: the streaming chat completion.                             *)
(***************************************************************************)
\* one stream: the chunks received (a content delta, or None for a chunk
\* whose delta carries no content) and the exception that ends it, if any
LLMStream(chunks, error) == [chunks |-> chunks, error |-> error]

Deltas == { Some("Hi"), Some(" there"), None }

LLMOutcomes ==
    { LLMStream(c, e) : c \in UNION { [1..n -> Deltas] : n \in 0..MaxChunks },
                        e \in { None, Some("Connection error.") } }

\* full_response after consuming the chunks
RECURSIVE full_response(_)
full_response(chunks) ==
    IF Len(chunks) = 0 THEN ""
    ELSE (IF chunks[1] # None THEN chunks[1][1] ELSE "") \o full_response(Tail(chunks))

error_message(e) == "I'm sorry, I encountered an error: " \o e

NoClientError == "'NoneType' object has no attribute 'chat'"

get_system_prompt(s) ==
    LET auth        == s["auth_data"][1]
        topic_name  == auth.TopicName
        branch_name == auth.BranchName
        batches     == auth.BatchList
        weak        == s["student_weak_concepts"]
    IN  IF s["is_teacher"]
        THEN "You are a highly knowledgeable educational assistant named EeeBee, built by Edubull, and specialized in "
             \o topic_name \o ".\nTeacher Mode Instructions:\n- The user is a teacher instructing "
             \o branch_name \o " students under the NCERT curriculum.\n- Available batches:\n"
             \o Join("\n", [i \in DOMAIN batches |->
                               "- " \o batches[i].BatchName \o " (ID: "
                               \o Str(batches[i].BatchID) \o ")"])
        ELSE "You are a highly knowledgeable educational assistant named EeeBee, developed by iEdubull and specialized in "
             \o topic_name \o ".\nStudent Mode Instructions:\n- The student is in "
             \o branch_name \o " and follows the NCERT curriculum.\n- The student's weak concepts are: "
             \o (IF Len(weak) > 0
                 THEN Join(", ", [i \in DOMAIN weak |-> weak[i].ConceptText])
                 ELSE "none")

\* a message list built from the transcript without its latest turn
conversation_history_without_last(s) ==
    << [role |-> "system", content |-> get_system_prompt(s)] >>
        \o [i \in 1..(Len(s["chat_history"]) - 1) |->
               [role |-> s["chat_history"][i][1], content |-> s["chat_history"][i][2]]]

\* conversation_history_formatted
conversation_history_formatted(s) ==
    << [role |-> "system", content |-> get_system_prompt(s)] >>
        \o [i \in DOMAIN s["chat_history"] |->
               [role |-> s["chat_history"][i][1], content |-> s["chat_history"][i][2]]]

\* a chat request addressed to the remedial-resource endpoint
ChatRequest_to_remedial(messages) ==
    [api |-> "WeakConcept_Remedy_List_ByConceptID", messages |-> messages]

ChatRequest(messages) == [api |-> "chat.completions", messages |-> messages]

\* a stream handler that commits the text received before the error
stream_reply_keeps_partial(s, has_client, llm) ==
    IF ~has_client
    THEN [text |-> error_message(NoClientError), calls |-> <<>>]
    ELSE [text  |-> IF llm.error # None
                    THEN full_response(llm.chunks) \o error_message(llm.error[1])
                    ELSE full_response(llm.chunks),
          calls |-> << ChatRequest(conversation_history_formatted(s)) >>]

\* a stream handler that commits the text as last displayed while streaming,
\* with the cursor character (written "|" here) still attached
stream_reply_with_cursor(s, has_client, llm) ==
    IF ~has_client
    THEN [text |-> error_message(NoClientError), calls |-> <<>>]
    ELSE [text  |-> IF llm.error # None THEN error_message(llm.error[1])
                    ELSE full_response(llm.chunks) \o "|",
          calls |-> << ChatRequest(conversation_history_formatted(s)) >>]

\* the try / except around the streaming call: the turn committed and the request issued
stream_reply(s, has_client, llm) ==
    IF ~has_client
    THEN [text |-> error_message(NoClientError), calls |-> <<>>]
    ELSE [text  |-> IF llm.error # None THEN error_message(llm.error[1])
                    ELSE full_response(llm.chunks),
          calls |-> << ChatRequest(conversation_history_formatted(s)) >>]

(***************************************************************************)
(* Script runs.                                                            *)
(***************************************************************************)
\* main_screen can render: auth_data['UserInfo'][0]['FullName'] exists
can_render(s) ==
    /\ s["is_authenticated"]
    /\ s["auth_data"] # None
    /\ s["auth_data"][1].UserInfo # None
    /\ Len(s["auth_data"][1].UserInfo[1]) > 0

add_initial_greeting(s) ==
    IF Len(s["chat_history"]) = 0
    THEN LET user_name  == s["auth_data"][1].UserInfo[1][1].FullName
             topic_name == s["auth_data"][1].TopicName
         IN  IF s["is_teacher"]
             THEN append_chat(s, "assistant",
                      "Hello " \o user_name \o "! I'm EeeBee, your AI teaching assistant for "
                      \o topic_name \o ".\n\nTo get started, click the **Show all classes** button to see your class list, then select a class number to view class analysis and student list.")
             ELSE append_chat(s, "assistant",
                      "Hello " \o user_name \o "! I'm EeeBee, your AI learning buddy for "
                      \o topic_name \o ".\n\nTo get started, try clicking the **Show available concepts** button to see what we can learn about, or **Show my learning gaps** to focus on areas that need improvement.")
    ELSE s

\* the run started by st.rerun(): no widget event; the chat tab is rendered
\* (it is the default section) and the last turn, if any, is the assistant's
rerun(s) ==
    LET s1 == InitDefaults(s)
    IN  IF can_render(s1) THEN add_initial_greeting(s1) ELSE s1

\* outcome of one run of handle_preset_prompt: the session state it leaves,
\* the route taken, the entity selected, the requests issued, whether an
\* exception escaped, and whether st.rerun() was reached
Outcome(s, route, kind, entity, calls, raised, reran, listed) ==
    [s |-> s, route |-> route, kind |-> kind, entity |-> entity,
     calls |-> calls, raised |-> raised, reran |-> reran, listed |-> listed]

\* the tail of handle_preset_prompt once the teacher router has returned
\* `cmd`: its reply if it produced one, else the LLM stream; then st.rerun()
reply_to_prompt(cmd, kind, entity, has_client, llm) ==
    IF cmd.raised
    THEN Outcome(cmd.s, cmd.route, "student", cmd.entity, cmd.calls, TRUE, FALSE, None)
    ELSE IF cmd.response # None
    THEN Outcome(append_chat(cmd.s, "assistant", cmd.response[1]), cmd.route,
                 IF cmd.route = "batch" THEN "class"
                 ELSE IF cmd.route = "student" THEN "student" ELSE "none",
                 cmd.entity, cmd.calls, FALSE, TRUE, cmd.listed)
    ELSE Outcome(append_chat(cmd.s, "assistant", stream_reply(cmd.s, has_client, llm).text),
                 "llm", kind, entity, stream_reply(cmd.s, has_client, llm).calls,
                 FALSE, TRUE, None)

handle_preset_prompt(s, has_client, prompt_text, student_info, student_concepts, llm) ==
    LET is_student == ~s["is_teacher"] IN
    \* student concept list request
    IF is_student /\ Lower(prompt_text) \in ConceptListCommands
    THEN LET g  == generate_student_concept_list(s)
             s1 == append_chat(g.s, "user", prompt_text)
             s2 == append_chat(s1, "assistant", g.message)
         IN  Outcome(s2, "list_concepts", "none", None, <<>>, FALSE, TRUE,
                     Listing("concept", s["auth_data"][1].ConceptList))
    \* student learning gaps list
    ELSE IF is_student /\ Lower(prompt_text) \in GapsListCommands
    THEN LET g  == generate_student_gaps_list(s)
             s1 == append_chat(g.s, "user", prompt_text)
             s2 == append_chat(s1, "assistant", g.message)
         IN  Outcome(s2, "list_gaps", "none", None, <<>>, FALSE, TRUE,
                     Listing("gap", s["auth_data"][1].WeakConceptList))
    ELSE
    LET \* a number corresponding to a concept
        is_concept == /\ is_student /\ hasattr(s, "numbered_concepts")
                      /\ prompt_text \in DOMAIN s["numbered_concepts"]
        prompt1 == IF is_concept
                   THEN "Can you explain the concept of "
                        \o s["numbered_concepts"][prompt_text].ConceptText \o "?"
                   ELSE prompt_text
        \* a number corresponding to a gap
        is_gap == /\ is_student /\ hasattr(s, "numbered_gaps")
                  /\ prompt1 \in DOMAIN s["numbered_gaps"]
        prompt2 == IF is_gap
                   THEN "Help me understand " \o s["numbered_gaps"][prompt1].ConceptText
                   ELSE prompt1
        kind   == IF is_gap THEN "gap" ELSE IF is_concept THEN "concept" ELSE "none"
        entity == IF is_gap THEN Some(s["numbered_gaps"][prompt1])
                  ELSE IF is_concept THEN Some(s["numbered_concepts"][prompt_text])
                  ELSE None
        s1 == append_chat(s, "user", prompt2)
    IN  reply_to_prompt(IF s["is_teacher"]
                        THEN handle_teacher_commands(s1, prompt2, student_info, student_concepts)
                        ELSE Handled(s1, None, "none", None, <<>>, FALSE, None),
                        kind, entity, has_client, llm)

\* get_gpt_response: without a client it returns before anything is appended
get_gpt_response(s, has_client, llm) ==
    IF ~has_client
    THEN Outcome(s, "llm", "none", None, <<>>, FALSE, FALSE, None)
    ELSE Outcome(append_chat(s, "assistant", stream_reply(s, has_client, llm).text),
                 "llm", "none", None, stream_reply(s, has_client, llm).calls,
                 FALSE, FALSE, None)

has_pending(s) ==
    /\ Len(s["chat_history"]) > 0
    /\ s["chat_history"][Len(s["chat_history"])][1] = "user"

\* the tail of process_pending_messages once the teacher router has returned
\* `cmd`: its reply if it produced one, else get_gpt_response; no st.rerun()
reply_to_pending(cmd, has_client, llm) ==
    IF cmd.raised
    THEN Outcome(cmd.s, cmd.route, "student", cmd.entity, cmd.calls, TRUE, FALSE, None)
    ELSE IF cmd.response # None
    THEN Outcome(append_chat(cmd.s, "assistant", cmd.response[1]), cmd.route,
                 IF cmd.route = "batch" THEN "class"
                 ELSE IF cmd.route = "student" THEN "student" ELSE "none",
                 cmd.entity, cmd.calls, FALSE, FALSE, cmd.listed)
    ELSE get_gpt_response(cmd.s, has_client, llm)

process_pending_messages(s, has_client, student_info, student_concepts, llm) ==
    IF has_pending(s)
    THEN reply_to_pending(
             IF s["is_teacher"]
             THEN handle_teacher_commands(s, s["chat_history"][Len(s["chat_history"])][2],
                                          student_info, student_concepts)
             ELSE Handled(s, None, "none", None, <<>>, FALSE, None),
             has_client, llm)
    ELSE Outcome(s, "none", "none", None, <<>>, FALSE, FALSE, None)

(***************************************************************************)
(* Authentication.                                                         *)
(***************************************************************************)
UserInfoRecord(name, id, subject) ==
    [FullName |-> name, UserID |-> id, OrgCode |-> OrgCode, SubjectID |-> subject]

AuthBody(status, subject, user_info, batches, concepts, weak) ==
    [statusCode |-> status, SubjectID |-> subject, UserInfo |-> user_info,
     BatchList |-> batches, ConceptList |-> concepts, WeakConceptList |-> weak,
     TopicName |-> "Fractions", BranchName |-> "Class 8"]

\* BatchList values of the auth response of a teacher
BatchLists ==
    { <<>>,
      << Batch(1, "8-A", 30), Batch(2, "8-B", 28) >>,
      << Batch(3, "2", 5), Batch(4, "List Students", 6) >> }

\* (ConceptList, WeakConceptList) values of the auth response of a student
StudentConceptLists ==
    { << <<>>, <<>> >>,
      << << Concept(501, "Fractions"), Concept(502, "Decimals") >>,
         << Concept(502, "Decimals") >> >> }

TeacherInfo == Some(<< UserInfoRecord("Meera", 7, Some(5)) >>)
StudentInfo == Some(<< UserInfoRecord("Kiran", 21, Some(5)) >>)

\* auth responses: accepted bodies for the requested user type, and the
\* defective ones (status, SubjectID, UserInfo)
AuthBodies(user_type_value) ==
    (IF user_type_value = 2
     THEN { AuthBody(1, None, TeacherInfo, b, <<>>, <<>>) : b \in BatchLists }
     ELSE { AuthBody(1, None, StudentInfo, <<>>, c[1], c[2]) : c \in StudentConceptLists })
    \cup { AuthBody(0, None, StudentInfo, <<>>, <<>>, <<>>),
           AuthBody(1, None, Some(<< UserInfoRecord("Kiran", 21, None) >>), <<>>, <<>>, <<>>),
           AuthBody(1, None, None, <<>>, <<>>, <<>>),
           AuthBody(1, Some(5), Some(<<>>), <<>>, <<>>, <<>>),
           AuthBody(1, None, Some(<<>>), <<>>, <<>>, <<>>) }

\* what requests.post(...).json() yields: an exception, or a body (None for an empty one)
AuthReplies(user_type_value) ==
    { [exception |-> TRUE, body |-> None] }
    \cup { [exception |-> FALSE, body |-> None] }
    \cup { [exception |-> FALSE, body |-> Some(b)] : b \in AuthBodies(user_type_value) }

\* auth_data.get("UserInfo", [{}])[0]: None when the list is empty (IndexError)
first_user_info(auth_data) ==
    IF auth_data.UserInfo = None THEN Some([SubjectID |-> None, UserID |-> None])
    ELSE IF Len(auth_data.UserInfo[1]) = 0 THEN None
    ELSE Some([SubjectID |-> auth_data.UserInfo[1][1].SubjectID,
               UserID    |-> Some(auth_data.UserInfo[1][1].UserID)])

\* returns is_valid, subject_id and whether the lookup raised
verify_auth_response(auth_data, is_english_mode) ==
    IF auth_data = None
    THEN [valid |-> FALSE, subject_id |-> None, raised |-> FALSE]
    ELSE IF auth_data[1].statusCode # 1
    THEN [valid |-> FALSE, subject_id |-> None, raised |-> FALSE]
    ELSE IF is_english_mode
    THEN [valid |-> TRUE, subject_id |-> None, raised |-> FALSE]
    ELSE IF auth_data[1].SubjectID # None
    THEN [valid |-> TRUE, subject_id |-> auth_data[1].SubjectID, raised |-> FALSE]
    ELSE IF first_user_info(auth_data[1]) = None
    THEN [valid |-> FALSE, subject_id |-> None, raised |-> TRUE]
    ELSE IF first_user_info(auth_data[1])[1].SubjectID = None
    THEN [valid |-> FALSE, subject_id |-> None, raised |-> FALSE]
    ELSE [valid |-> TRUE, subject_id |-> first_user_info(auth_data[1])[1].SubjectID,
          raised |-> FALSE]

\* returns the session state and the success flag
enhanced_login(s, topic_id, is_english_mode, user_type_value, reply) ==
    IF reply.exception
    THEN [s |-> s, success |-> FALSE]
    ELSE LET v == verify_auth_response(reply.body, is_english_mode)
         IN  IF ~v.valid
             THEN [s |-> s, success |-> FALSE]
             ELSE LET s1 == setattr(s, "auth_data", reply.body)
                      s2 == setattr(s1, "is_authenticated", TRUE)
                      s3 == setattr(s2, "topic_id", Some(topic_id))
                      s4 == setattr(s3, "is_english_mode", is_english_mode)
                      s5 == setattr(s4, "is_teacher", user_type_value = 2)
                      s6 == IF is_english_mode THEN s5
                            ELSE setattr(s5, "subject_id", v.subject_id)
                      info == first_user_info(reply.body[1])
                  IN  IF info = None
                      \* IndexError on the empty UserInfo list, caught by
                      \* `except Exception` after the assignments above
                      THEN [s |-> s6, success |-> FALSE]
                      ELSE LET s7 == setattr(s6, "user_id", info[1].UserID)
                               s8 == IF ~is_english_mode /\ user_type_value = 3
                                     THEN setattr(s7, "student_weak_concepts",
                                                  reply.body[1].WeakConceptList)
                                     ELSE s7
                           IN  [s |-> s8, success |-> TRUE]

(***************************************************************************)
(* The student's tabbed screen (main_screen outside English mode): the     *)
(* data load and the gap-analyzer table, whose rows are produced by a      *)
(* thread pool while the script thread renders.                            *)
(***************************************************************************)
\* number of concepts in the all-concepts answer
MaxConcepts == 2
\* number of script runs of the tabbed screen
MaxRuns == 2

ConceptStatuses == {"Weak", "Cleared", "Not-Attended"}

AllConcept(id, status) ==
    [ConceptID |-> id, ConceptText |-> "Concept " \o Str(id),
     TopicID |-> TopicID, ConceptStatus |-> status]

\* fetch_all_concepts: the JSON list, or None after an exception
AllConceptsResponses ==
    {None} \cup
    { Some([i \in 1..n |-> AllConcept(i, statuses[i])]) :
        n \in 0..MaxConcepts, statuses \in [1..MaxConcepts -> ConceptStatuses] }

\* fetch_baseline_data: the JSON report, or None after an exception
BaselineResponses == {None, Some([u_list |-> <<>>])}

Video == [LectureID |-> 7, LectureTitle |-> "Intro"]

\* fetch_remedial_resources: the JSON object, or None after an exception
RemedialResponses ==
    {None} \cup
    { Some([Video_List |-> videos, Notes_List |-> <<>>, Exercise_List |-> <<>>]) :
        videos \in {<<>>, <<Video>>} }

\* the request fetch_remedial_resources posts
RemedialRequest(topic_id, concept_id) ==
    [api |-> "WeakConcept_Remedy_List_ByConceptID", topic |-> topic_id, id |-> concept_id]

\* the section glyphs of the headings are left out of the strings
format_remedial_resources(resources) ==
    IF resources = None
    THEN "No remedial resources available for this concept."
    ELSE (IF resources[1].Video_List # <<>>
          THEN "**Video Lectures:**\n"
               \o Join("", [i \in DOMAIN resources[1].Video_List |->
                      "- [" \o resources[1].Video_List[i].LectureTitle
                      \o "](https://www.edubull.com/courses/videos/"
                      \o Str(resources[1].Video_List[i].LectureID) \o ")\n"])
               \o "\n"
          ELSE "")
         \o (IF resources[1].Notes_List # <<>>
             THEN "**Study Notes:**\n"
                  \o Join("", [i \in DOMAIN resources[1].Notes_List |->
                         "- [" \o resources[1].Notes_List[i].NotesTitle \o "]("
                         \o resources[1].Notes_List[i].FolderName
                         \o resources[1].Notes_List[i].PDFFileName \o ")\n"])
                  \o "\n"
             ELSE "")
         \o (IF resources[1].Exercise_List # <<>>
             THEN "**Practice Exercises:**\n"
                  \o Join("", [i \in DOMAIN resources[1].Exercise_List |->
                         "- [" \o resources[1].Exercise_List[i].ExerciseTitle \o "]("
                         \o resources[1].Exercise_List[i].FolderName
                         \o resources[1].Exercise_List[i].ExerciseFileName \o ")\n"])
             ELSE "")

\* st.session_state.baseline_data / all_concepts, the st.cache_data store of
\* cached_fetch_remedial_resources, and the gap-analyzer table being rendered:
\* futures[i] is None while fetch_resources(concepts_to_fetch[i]) is running;
\* `clicked` is the concept whose Generate Learning Path button started the
\* run, with the answer of the completion call
TabDefaults ==
    [baseline_data |-> None, all_concepts |-> <<>>, cache |-> <<>>,
     selection |-> "Chat", futures |-> <<>>, rows |-> <<>>, pc |-> "idle",
     runs |-> 0, calls |-> <<>>, clicked |-> None]

TabSections == {"Chat", "Gap Analyzer"}

\* `x or []`
or_empty(x) == IF x = None THEN <<>> ELSE x[1]

needs_load(t) == t.baseline_data = None \/ t.all_concepts = <<>>

\* both fetches are submitted, then their results are stored
load_data_parallel(t, baseline, concepts) ==
    [t EXCEPT !.baseline_data = baseline,
              !.all_concepts = or_empty(concepts),
              !.calls = <<[api |-> "API_BASELINE_REPORT"], [api |-> "API_ALL_CONCEPTS_URL"]>>]

concepts_to_fetch(all_concepts) ==
    [i \in DOMAIN all_concepts |->
        [concept_id |-> all_concepts[i].ConceptID,
         concept_text |-> all_concepts[i].ConceptText,
         topic_id |-> all_concepts[i].TopicID,
         status |-> all_concepts[i].ConceptStatus]]

\* a status test that sends every concept to the remedial endpoint
needs_remedial_always(concept) == TRUE

needs_remedial(concept) == concept.status \in {"Weak", "Not-Attended"}

\* the worker's return value; `resources` is what
\* cached_fetch_remedial_resources returned
fetch_resources(concept, resources) ==
    IF needs_remedial(concept)
    THEN <<concept, format_remedial_resources(resources)>>
    ELSE <<concept, "-">>

\* one table row: the four columns
table_row(concept, remedial) ==
    [concept_text |-> concept.concept_text,
     status |-> concept.status,
     remedial |-> remedial,
     gap_button |-> needs_remedial(concept)]

\* the header is rendered and every concept is submitted to the pool; with no
\* concepts only the warning is shown
display_all_concepts_tab(t) ==
    IF t.all_concepts = <<>>
    THEN [t EXCEPT !.futures = <<>>, !.rows = <<>>, !.pc = "idle"]
    ELSE [t EXCEPT !.futures = [i \in DOMAIN t.all_concepts |-> None],
                   !.rows = <<>>, !.pc = "rows"]

display_tabs_parallel(t, tab_selection) ==
    IF tab_selection = "Gap Analyzer"
    THEN display_all_concepts_tab([t EXCEPT !.selection = tab_selection])
    ELSE [t EXCEPT !.selection = tab_selection,
                   !.futures = <<>>, !.rows = <<>>, !.pc = "idle"]

\* the tabbed branch of main_screen
main_screen(t, tab_selection, baseline, concepts) ==
    display_tabs_parallel(
        IF needs_load(t)
        THEN load_data_parallel([t EXCEPT !.runs = @ + 1, !.clicked = None],
                                baseline, concepts)
        ELSE [t EXCEPT !.runs = @ + 1, !.calls = <<>>, !.clicked = None],
        tab_selection)

\* the system prompt of generate_learning_path
learning_path_prompt(branch_name, concept_text) ==
    "You are a highly experienced educational AI assistant specializing in the NCERT curriculum. "
    \o "A student in " \o branch_name \o " is struggling with the weak concept: '"
    \o concept_text \o "'. "
    \o "Please create a structured, step-by-step learning path tailored to "
    \o branch_name \o " students, "
    \o "ensuring clarity, engagement, and curriculum alignment.\n\n"
    \o "Sections:\n1. **Introduction**\n2. **Step-by-Step Learning**\n3. **Engagement**\n"
    \o "4. **Real-World Applications**\n5. **Practice Problems**\n\n"
    \o "All math expressions must be in LaTeX."
    \o "Avoid using LaTeX commands like \\text in your responses."

\* what the completion call of generate_learning_path can give: an exception
\* (None) or the stripped message content, which may be empty
LearningPathResponses == { None, Some(""), Some("1. Introduction") }

\* the request generate_learning_path issues (none without a client)
learning_path_calls(s, has_client, concept_text) ==
    IF has_client
    THEN << ChatRequest(<< [role |-> "system",
                            content |-> learning_path_prompt(s["auth_data"][1].BranchName,
                                                             concept_text)] >>) >>
    ELSE <<>>

\* a generator that returns a placeholder text after an exception
generate_learning_path_or_placeholder(has_client, response) ==
    IF has_client /\ response # None THEN response ELSE Some("unavailable")

\* the text generate_learning_path returns, None after an exception or
\* without a client
generate_learning_path(has_client, response) ==
    IF has_client THEN response ELSE None

\* st.session_state.student_learning_paths[concept_id] = {...}
store_learning_path(s, concept, learning_path) ==
    setattr(s, "student_learning_paths",
            (concept.ConceptID :> [concept_text |-> concept.ConceptText,
                                   learning_path |-> learning_path])
                @@ s["student_learning_paths"])

\* display_learning_path_tab when the button of `concept` was pressed: the
\* session state it leaves
display_learning_path_tab(s, concept, has_client, response) ==
    IF concept.ConceptID \in DOMAIN s["student_learning_paths"]
    THEN s
    ELSE IF generate_learning_path(has_client, response) # None
            /\ generate_learning_path(has_client, response)[1] # ""
    THEN store_learning_path(s, concept, generate_learning_path(has_client, response)[1])
    ELSE s

\* future i completes with the worker's return value
future_done(t, i, resources) ==
    [t EXCEPT !.futures[i] = Some(fetch_resources(concepts_to_fetch(t.all_concepts)[i],
                                                  resources)[2]),
              !.cache = IF needs_remedial(concepts_to_fetch(t.all_concepts)[i])
                        THEN (concepts_to_fetch(t.all_concepts)[i].concept_id :> resources)
                             @@ t.cache
                        ELSE t.cache,
              !.calls = IF needs_remedial(concepts_to_fetch(t.all_concepts)[i])
                           /\ concepts_to_fetch(t.all_concepts)[i].concept_id
                                  \notin DOMAIN t.cache
                        THEN Append(@, RemedialRequest(
                                 concepts_to_fetch(t.all_concepts)[i].topic_id,
                                 concepts_to_fetch(t.all_concepts)[i].concept_id))
                        ELSE @]

rendered(t) == { i \in DOMAIN t.futures :
                   \E k \in DOMAIN t.rows : t.rows[k].index = i }

\* the body of the as_completed loop for future i; the executor is left after
\* the last one
render_row(t, i) ==
    [t EXCEPT !.rows = Append(@, [index |-> i,
                                  row |-> table_row(concepts_to_fetch(t.all_concepts)[i],
                                                    t.futures[i][1])]),
              !.pc = IF Len(t.rows) + 1 = Len(t.futures) THEN "idle" ELSE "rows"]

(***************************************************************************)
(* The teacher dashboard: the batch selector and the concept data of the   *)
(* selected batch.                                                         *)
(***************************************************************************)
\* number of script runs of the dashboard section
MaxDashRuns == 3

\* st.session_state.selected_batch_id / teacher_weak_concepts, and what the
\* latest run of the section did: the batch chosen in the selector and the
\* requests issued
DashDefaults ==
    [selected_batch_id |-> None, teacher_weak_concepts |-> <<>>,
     batch_selector |-> None, calls |-> <<>>, runs |-> 0]

\* the request to the older concept endpoint
TeacherWeakConceptsRequest(batch_id, topic_id, org_code) ==
    [api |-> "API_TEACHER_WEAK_CONCEPTS", id |-> batch_id, topic |-> topic_id,
     org |-> org_code]

\* answers of the newer endpoint as the dashboard sees them: an exception
\* (None), a body with Concepts and Students, or a body of another shape
DashboardResponses ==
    StudentInfoResponses \cup { Some([Message |-> "No data"]) }

\* answers of the older endpoint: an exception, or the list of weak concepts
WeakConceptsResponses ==
    { None, Some(<<>>), Some(<< [ConceptText |-> "Fractions", ConceptID |-> 501] >>) }

\* batch_options = {b['BatchName']: b for b in batches}: the last batch of a name
batch_option(batches, name) ==
    batches[CHOOSE i \in DOMAIN batches :
               /\ batches[i].BatchName = name
               /\ \A j \in DOMAIN batches : batches[j].BatchName = name => j <= i]

\* a dashboard that fetches without recording the batch
record_batch_skipped(d, selected_batch_id) == d

\* st.session_state.selected_batch_id = selected_batch_id
record_batch(d, selected_batch_id) ==
    [d EXCEPT !.selected_batch_id = Some(selected_batch_id)]

\* the fetch of the concept data: the newer endpoint, then the older one when
\* the body lacks Concepts or Students; any exception stores the empty list
fetch_concept_data(d, s, selected_batch_id, new_api, old_api) ==
    IF new_api = None
    THEN [d EXCEPT !.teacher_weak_concepts = <<>>,
                   !.calls = << StudentInfoRequest(selected_batch_id, s["topic_id"][1],
                                                   org_code_of(s)) >>]
    ELSE IF {"Concepts", "Students"} \subseteq DOMAIN new_api[1]
    THEN [d EXCEPT !.teacher_weak_concepts = new_api[1],
                   !.calls = << StudentInfoRequest(selected_batch_id, s["topic_id"][1],
                                                   org_code_of(s)) >>]
    ELSE [d EXCEPT !.teacher_weak_concepts = IF old_api = None THEN <<>> ELSE old_api[1],
                   !.calls = << StudentInfoRequest(selected_batch_id, s["topic_id"][1],
                                                   org_code_of(s)),
                                TeacherWeakConceptsRequest(selected_batch_id,
                                                           s["topic_id"][1],
                                                           org_code_of(s)) >>]

\* teacher_dashboard up to the views: with no batches only the warning is shown
teacher_dashboard(d, s, selected_batch_name, new_api, old_api) ==
    IF s["auth_data"][1].BatchList = <<>>
    THEN [d EXCEPT !.runs = @ + 1, !.calls = <<>>, !.batch_selector = None]
    ELSE IF batch_option(s["auth_data"][1].BatchList, selected_batch_name).BatchID # 0
            /\ d.selected_batch_id
                 # Some(batch_option(s["auth_data"][1].BatchList, selected_batch_name).BatchID)
    THEN fetch_concept_data(
             record_batch([d EXCEPT !.runs = @ + 1,
                                    !.batch_selector = Some(selected_batch_name)],
                          batch_option(s["auth_data"][1].BatchList,
                                       selected_batch_name).BatchID),
             s,
             batch_option(s["auth_data"][1].BatchList, selected_batch_name).BatchID,
             new_api, old_api)
    ELSE [d EXCEPT !.runs = @ + 1, !.calls = <<>>,
                   !.batch_selector = Some(selected_batch_name)]

(***************************************************************************)
(* The document-upload chat assistant (test.py): a second Streamlit script *)
(* with its own session state, `messages` and `document_content`.          *)
(***************************************************************************)
\* number of prompts one session of the document assistant may hold
MaxPrompts == 6

\* st.session_state.messages / document_content, the file held by the
\* uploader widget, whether the latest run rendered the Clear Document
\* button, and what the latest run did
DocDefaults ==
    [messages |-> <<>>, document_content |-> "", uploaded_file |-> None,
     clear_shown |-> FALSE, event |-> "start", request |-> None, raised |-> FALSE]

Message(role, content) == [role |-> role, content |-> content]

DocxType == "application/vnd.openxmlformats-officedocument.wordprocessingml.document"

\* files the user can put in the uploader: a text file, a PDF of two pages, a
\* PDF that cannot be opened, a DOCX file, a CSV file
Files ==
    { [name |-> "notes.txt", type |-> "text/plain", text |-> "alpha"],
      [name |-> "book.pdf", type |-> "application/pdf", pages |-> Some(<<"p1", "p2">>)],
      [name |-> "scan.pdf", type |-> "application/pdf", pages |-> None],
      [name |-> "essay.docx", type |-> DocxType, paragraphs |-> <<"one", "two">>],
      [name |-> "marks.csv", type |-> "text/csv", info |-> "2 entries", head |-> "a,b"] }

\* the text extracted from an uploaded file, None when the extraction raises
extract_text(file) ==
    IF file.type = "text/plain" THEN Some(file.text)
    ELSE IF file.type = "application/pdf"
    THEN (IF file.pages = None THEN None ELSE Some(Join("", file.pages[1])))
    ELSE IF file.type = DocxType THEN Some(Join("\n", file.paragraphs))
    ELSE Some("CSV Summary:\n" \o file.info \o "\n\nFirst 5 rows:\n" \o file.head)

\* the sidebar block that processes the file present in the uploader
process_upload(d) ==
    IF d.uploaded_file = None \/ extract_text(d.uploaded_file[1]) = None
    THEN d
    ELSE [d EXCEPT !.document_content = extract_text(d.uploaded_file[1])[1]]

\* the Clear Document button, rendered only while there is content
clear_document(d, clicked) ==
    IF d.document_content # ""
    THEN [d EXCEPT !.clear_shown = TRUE,
                   !.document_content = IF clicked THEN "" ELSE @]
    ELSE [d EXCEPT !.clear_shown = FALSE]

\* what the Gemini call can do: fail before the stream exists, or give a
\* stream of text chunks that may raise while it is consumed
GeminiOutcomes ==
    { [created |-> FALSE, error |-> "API key not valid", chunks |-> <<>>, raises |-> FALSE],
      [created |-> TRUE, error |-> "", chunks |-> <<"Hi">>, raises |-> FALSE],
      [created |-> TRUE, error |-> "", chunks |-> <<"Hi">>, raises |-> TRUE] }

\* st.session_state.messages[-10:] if len(st.session_state.messages) > 1 else []
conversation_history(messages) ==
    IF Len(messages) > 1
    THEN SubSeq(messages, IF Len(messages) > 10 THEN Len(messages) - 9 ELSE 1, Len(messages))
    ELSE <<>>

\* the prompt text generate_gemini_response sends
full_prompt(prompt, document_content, history) ==
    (IF Len(history) > 0
     THEN "Previous conversation:\n"
          \o Join("", [i \in DOMAIN history |->
                 (IF history[i].role = "user" THEN "User" ELSE "Assistant")
                 \o ": " \o history[i].content \o "\n"])
          \o "\n"
     ELSE "")
    \o (IF document_content # "" THEN "Document content:\n" \o document_content \o "\n\n"
        ELSE "")
    \o "User: " \o prompt \o "\n\nAssistant:"

\* the chat block for a submitted prompt: the user message is appended, the
\* response generated, and the assistant message appended unless the stream
\* raised while it was consumed
chat_input(d, prompt, outcome) ==
    [d EXCEPT
       !.messages =
           IF outcome.created /\ outcome.raises
           THEN Append(@, Message("user", prompt))
           ELSE Append(Append(@, Message("user", prompt)),
                       Message("assistant",
                               IF outcome.created THEN Join("", outcome.chunks)
                               ELSE "Error generating response: " \o outcome.error)),
       !.request =
           Some([prompt |-> prompt,
                 document_content |-> d.document_content,
                 conversation_history |->
                     conversation_history(Append(d.messages, Message("user", prompt))),
                 contents |->
                     full_prompt(prompt, d.document_content,
                         conversation_history(Append(d.messages, Message("user", prompt))))]),
       !.raised = outcome.created /\ outcome.raises]

\* one run of the script for a widget event
script_run(d, event, clicked) ==
    clear_document(process_upload([d EXCEPT !.event = event, !.request = None,
                                            !.raised = FALSE]),
                   clicked)

(***************************************************************************)
(* The state machine.                                                      *)
(***************************************************************************)
\* what the user types in the chat box
TeacherInputs == {"Please Show Classes", "list students", "1", "2", "asha", "8-a", "hello"}
StudentInputs == {"List Concepts", "my gaps", "1", "2", "hello"}

Inputs(s) == IF s["is_teacher"] THEN TeacherInputs ELSE StudentInputs

NoStream == LLMStream(<<>>, None)

\* `failed`: a request of this run got no usable answer (an exception inside
\* the fetch function, or a stream that raised)
RunRecord(event, input, o, failed, llm, reply) ==
    [event |-> event, input |-> input, route |-> o.route, kind |-> o.kind,
     entity |-> o.entity, calls |-> o.calls, raised |-> o.raised,
     listed |-> o.listed, failed |-> failed, llm |-> llm, reply |-> reply]

\* whether the request issued by outcome `o` failed, given the answers
call_failed(o, student_info, student_concepts, llm) ==
    /\ Len(o.calls) > 0
    /\ \/ o.route = "batch" /\ student_info = None
       \/ o.route = "student" /\ student_concepts = None
       \/ o.route = "llm" /\ llm.error # None

NoOutcome(s, route) == Outcome(s, route, "none", None, <<>>, FALSE, FALSE, None)

user_turns(s) == Len(SelectSeq(s["chat_history"], LAMBDA t : t[1] = "user"))

Init ==
    /\ session_state = InitDefaults(Cleared)
    /\ client \in BOOLEAN
    /\ run = RunRecord("start", None, NoOutcome(session_state, "none"), FALSE, None, None)
    /\ shown = None
    /\ tab = TabDefaults
    /\ dash = DashDefaults
    /\ doc = DocDefaults

\* the answers the remote services can give to the request of a run that
\* takes `route`: <<student_info, student_concepts, llm>>
RemoteAnswers(route, has_client) ==
    { <<student_info, student_concepts, llm>> :
        student_info \in (IF route = "batch" THEN StudentInfoResponses ELSE {None}),
        student_concepts \in (IF route = "student" THEN StudentConceptsResponses ELSE {None}),
        llm \in (IF route = "llm" /\ has_client THEN LLMOutcomes ELSE {NoStream}) }

\* login_screen after enhanced_login returned `r`: st.rerun() on success
LoginRun(r, reply) ==
    /\ session_state' = IF r.success THEN rerun(r.s) ELSE r.s
    /\ run' = RunRecord("login", None,
                        NoOutcome(r.s, IF r.success THEN "login_ok" ELSE "login_failed"),
                        ~r.success, None, Some(reply))

\* the script run of a chat input, given the outcome `o` of handle_preset_prompt
ChatRun(prompt, o, answers) ==
    /\ session_state' = IF o.reran THEN rerun(o.s) ELSE o.s
    /\ run' = RunRecord("input", Some(prompt), o,
                        call_failed(o, answers[1], answers[2], answers[3]),
                        IF Len(o.calls) > 0 /\ o.route = "llm" THEN Some(answers[3]) ELSE None,
                        None)
    /\ shown' = IF o.listed # None THEN o.listed ELSE shown

\* the script run without a chat input, given the outcome `o` of process_pending_messages
PendingRun(o, answers) ==
    /\ session_state' = o.s
    /\ run' = RunRecord("rerun", None, o,
                        call_failed(o, answers[1], answers[2], answers[3]),
                        IF Len(o.calls) > 0 /\ o.route = "llm" THEN Some(answers[3]) ELSE None,
                        None)
    /\ shown' = IF o.listed # None THEN o.listed ELSE shown

\* the login button: login_screen fixes the mode from the URL, then enhanced_login
Login ==
    /\ ~session_state["is_authenticated"]
    /\ \E is_english_mode \in BOOLEAN, user_type_value \in {2, 3} :
         /\ is_english_mode => user_type_value = 3
         /\ \E reply \in AuthReplies(user_type_value) :
              LoginRun(enhanced_login(setattr(session_state, "is_english_mode",
                                              is_english_mode),
                                      TopicID, is_english_mode, user_type_value, reply),
                       reply)
    /\ UNCHANGED <<client, shown, tab, dash, doc>>

\* a chat input: display_chat calls handle_preset_prompt
ChatInput ==
    /\ can_render(session_state)
    /\ user_turns(session_state) < MaxInputs
    /\ \E prompt \in Inputs(session_state) :
         \E answers \in RemoteAnswers(
                 handle_preset_prompt(session_state, client, prompt,
                                      None, None, NoStream).route, client) :
            ChatRun(prompt,
                    handle_preset_prompt(session_state, client, prompt,
                                         answers[1], answers[2], answers[3]),
                    answers)
    /\ UNCHANGED <<client, tab, dash, doc>>

\* any other widget event (a sidebar section change): the script runs without
\* a chat input and ends in process_pending_messages
WidgetRerun ==
    /\ can_render(session_state)
    /\ has_pending(session_state)
    /\ \E answers \in RemoteAnswers(
               process_pending_messages(session_state, client,
                                        None, None, NoStream).route, client) :
          PendingRun(process_pending_messages(session_state, client,
                                              answers[1], answers[2], answers[3]),
                     answers)
    /\ UNCHANGED <<client, tab, dash, doc>>

\* a logout that only drops the authentication flag
Logout_keeps_state ==
    /\ can_render(session_state)
    /\ session_state["is_teacher"] \/ ~session_state["is_english_mode"]
    /\ session_state' = [session_state EXCEPT !["is_authenticated"] = FALSE]
    /\ run' = RunRecord("logout", None, NoOutcome(session_state', "none"), FALSE, None, None)
    /\ shown' = None
    /\ UNCHANGED <<client, tab, dash, doc>>

\* the sidebar logout button (teacher screen and the student tabs; the
\* English-mode screen has none): st.session_state.clear() and st.rerun()
Logout ==
    /\ can_render(session_state)
    /\ session_state["is_teacher"] \/ ~session_state["is_english_mode"]
    /\ session_state' = rerun(Cleared)
    /\ run' = RunRecord("logout", None, NoOutcome(session_state', "none"), FALSE, None, None)
    /\ shown' = None
    /\ UNCHANGED <<client, tab, dash, doc>>

Next == Login \/ ChatInput \/ WidgetRerun \/ Logout

Spec == Init /\ [][Next]_vars

(***************************************************************************)
(* The tabbed screen as a state machine: a non-English student session     *)
(* right after its login, the script runs of the sidebar sections, and the *)
(* pool threads of the gap-analyzer table.                                 *)
(***************************************************************************)
LoggedIn(r, reply) ==
    /\ r.success
    /\ session_state = rerun(r.s)
    /\ run = RunRecord("login", None, NoOutcome(r.s, "login_ok"), FALSE, None, Some(reply))

TabInit ==
    /\ \E reply \in AuthReplies(3) :
         LoggedIn(enhanced_login(setattr(InitDefaults(Cleared), "is_english_mode", FALSE),
                                        TopicID, FALSE, 3, reply),
                         reply)
    /\ client \in BOOLEAN
    /\ shown = None
    /\ tab = TabDefaults
    /\ dash = DashDefaults
    /\ doc = DocDefaults

\* a sidebar section is chosen: main_screen loads the data when it is missing
\* and display_tabs_parallel renders the section
TabRun ==
    /\ tab.pc = "idle"
    /\ tab.runs < MaxRuns
    /\ \E tab_selection \in TabSections :
         \E baseline \in (IF needs_load(tab) THEN BaselineResponses ELSE {None}),
            concepts \in (IF needs_load(tab) THEN AllConceptsResponses ELSE {None}) :
            tab' = main_screen(tab, tab_selection, baseline, concepts)
    /\ UNCHANGED <<session_state, client, run, shown, dash, doc>>

\* a pool thread finishes fetch_resources for one concept; the remedial
\* request is issued unless st.cache_data holds its answer
FetchDone ==
    /\ tab.pc = "rows"
    /\ \E i \in DOMAIN tab.futures :
         /\ tab.futures[i] = None
         /\ \E resources \in
                (IF ~needs_remedial(concepts_to_fetch(tab.all_concepts)[i])
                 THEN {None}
                 ELSE IF concepts_to_fetch(tab.all_concepts)[i].concept_id
                             \in DOMAIN tab.cache
                      THEN {tab.cache[concepts_to_fetch(tab.all_concepts)[i].concept_id]}
                      ELSE RemedialResponses) :
              tab' = future_done(tab, i, resources)
    /\ UNCHANGED <<session_state, client, run, shown, dash, doc>>

\* the script thread takes the next completed future from as_completed and
\* renders its row
RenderRow ==
    /\ tab.pc = "rows"
    /\ \E i \in DOMAIN tab.futures \ rendered(tab) :
         /\ tab.futures[i] # None
         /\ tab' = render_row(tab, i)
    /\ UNCHANGED <<session_state, client, run, shown, dash, doc>>

\* the Generate Learning Path button of a weak concept is pressed in the
\* Learning Path section: main_screen, then display_learning_path_tab
GeneratePath ==
    /\ tab.pc = "idle"
    /\ tab.runs < MaxRuns
    /\ \E i \in DOMAIN session_state["auth_data"][1].WeakConceptList :
         \E baseline \in (IF needs_load(tab) THEN BaselineResponses ELSE {None}),
            concepts \in (IF needs_load(tab) THEN AllConceptsResponses ELSE {None}),
            response \in (IF client /\ session_state["auth_data"][1].WeakConceptList[i].ConceptID
                                        \notin DOMAIN session_state["student_learning_paths"]
                          THEN LearningPathResponses ELSE {None}) :
            /\ tab' = [main_screen(tab, "Learning Path", baseline, concepts) EXCEPT
                          !.clicked = Some([concept |-> session_state["auth_data"][1]
                                                           .WeakConceptList[i],
                                            response |-> response]),
                          !.calls = @ \o
                              (IF session_state["auth_data"][1].WeakConceptList[i].ConceptID
                                     \in DOMAIN session_state["student_learning_paths"]
                               THEN <<>>
                               ELSE learning_path_calls(session_state, client,
                                        session_state["auth_data"][1].WeakConceptList[i]
                                            .ConceptText))]
            /\ session_state' = display_learning_path_tab(
                                    session_state,
                                    session_state["auth_data"][1].WeakConceptList[i],
                                    client, response)
    /\ UNCHANGED <<client, run, shown, dash, doc>>


TabNext == TabRun \/ FetchDone \/ RenderRow \/ GeneratePath

TabSpec == TabInit /\ [][TabNext]_vars

(***************************************************************************)
(* The teacher dashboard as a state machine: a teacher session right after *)
(* its login and the script runs of the dashboard section.                 *)
(***************************************************************************)
DashInit ==
    /\ \E reply \in AuthReplies(2) :
         LoggedIn(enhanced_login(setattr(InitDefaults(Cleared), "is_english_mode", FALSE),
                                 TopicID, FALSE, 2, reply),
                  reply)
    /\ client \in BOOLEAN
    /\ shown = None
    /\ tab = TabDefaults
    /\ dash = DashDefaults
    /\ doc = DocDefaults

\* the names the batch selector offers (None when the teacher has no batch)
selector_options(s) ==
    IF s["auth_data"][1].BatchList = <<>> THEN {None}
    ELSE { s["auth_data"][1].BatchList[i].BatchName : i \in DOMAIN s["auth_data"][1].BatchList }

\* a script run of the dashboard section with the selector at some batch
DashboardRun ==
    /\ dash.runs < MaxDashRuns
    /\ \E selected_batch_name \in selector_options(session_state) :
         \E new_api \in DashboardResponses, old_api \in WeakConceptsResponses :
            dash' = teacher_dashboard(dash, session_state, selected_batch_name,
                                      new_api, old_api)
    /\ UNCHANGED <<session_state, client, run, shown, tab, doc>>

DashNext == DashboardRun

DashSpec == DashInit /\ [][DashNext]_vars

(***************************************************************************)
(* The document assistant as a state machine: one action per widget event, *)
(* each a whole run of the script.                                         *)
(***************************************************************************)
DocPrompts == {"hello"}

user_messages(d) == Len(SelectSeq(d.messages, LAMBDA m : m.role = "user"))

DocInit == Init

\* a file is put in the uploader
Upload ==
    /\ \E file \in Files :
         /\ doc.uploaded_file # Some(file)
         /\ doc' = script_run([doc EXCEPT !.uploaded_file = Some(file)], "upload", FALSE)
    /\ UNCHANGED <<session_state, client, run, shown, tab, dash>>

\* the file is removed from the uploader
RemoveFile ==
    /\ doc.uploaded_file # None
    /\ doc' = script_run([doc EXCEPT !.uploaded_file = None], "remove", FALSE)
    /\ UNCHANGED <<session_state, client, run, shown, tab, dash>>

\* the Clear Document button is pressed
ClearDocument ==
    /\ doc.clear_shown
    /\ doc' = script_run(doc, "clear", TRUE)
    /\ UNCHANGED <<session_state, client, run, shown, tab, dash>>

\* a prompt is submitted in the chat box
Prompt ==
    /\ user_messages(doc) < MaxPrompts
    /\ \E prompt \in DocPrompts, outcome \in GeminiOutcomes :
         doc' = chat_input(script_run(doc, "prompt", FALSE), prompt, outcome)
    /\ UNCHANGED <<session_state, client, run, shown, tab, dash>>

DocNext == Upload \/ RemoveFile \/ ClearDocument \/ Prompt

DocSpec == DocInit /\ [][DocNext]_vars

(***************************************************************************)
(* Properties.                                                             *)
(***************************************************************************)
chat_history == session_state["chat_history"]

last_turn == chat_history[Len(chat_history)]

IsPrefix(a, b) == Len(a) <= Len(b) /\ SubSeq(b, 1, Len(a)) = a

ScopeKeys == {"numbered_batches", "numbered_students", "numbered_concepts", "numbered_gaps"}

\* what the router does with input x in the current state (the route, the
\* kind of entity selected and the entity do not depend on the answers)
Route(x) == handle_preset_prompt(session_state, client, x, None, None, NoStream)

in_session == can_render(session_state)

is_student_session == in_session /\ ~session_state["is_teacher"]

is_teacher_session == in_session /\ session_state["is_teacher"]

\* the session attribute that holds the numbering of a kind of entity
ScopeKey(kind) ==
    CASE kind = "class"   -> "numbered_batches"
      [] kind = "student" -> "numbered_students"
      [] kind = "concept" -> "numbered_concepts"
      [] kind = "gap"     -> "numbered_gaps"

\* the tokens of the numbering of a kind (none when the attribute is absent)
scope_tokens(kind) ==
    IF hasattr(session_state, ScopeKey(kind))
    THEN DOMAIN session_state[ScopeKey(kind)] ELSE {}

\* the tokens "1".."N" of a listing of N entities
TokensOf(entities) == { Str(i) : i \in 1..Len(entities) }

\* attributes that pin the class and the student under analysis
PinnedKeys == {"current_batch_students", "current_batch_concepts", "selected_student"}

scope_and_pinned(s) == [k \in (DOMAIN s) \cap (ScopeKeys \cup PinnedKeys) |-> s[k]]

assistant_turns(h) == Len(SelectSeq(h, LAMBDA t : t[1] = "assistant"))

\* inputs the properties probe the router with
NumericProbes == {"0", "1", "2", "3"}

ProbeInputs ==
    TeacherInputs \cup StudentInputs \cup NumericProbes
        \cup {"show classes", "list batches", "show students", "List Students",
              "show concepts", "learning gaps"}

\* C1: the latest listing over N entities leaves a scope whose tokens are
\* exactly "1".."N"; token k maps to the k-th entity of the listed list, and
\* the numeric input k is dispatched to the handler of that k-th entity.
C1_TokensInListOrder ==
    shown # None =>
        /\ scope_tokens(shown[1].kind) = TokensOf(shown[1].entities)
        /\ \A i \in DOMAIN shown[1].entities :
              /\ session_state[ScopeKey(shown[1].kind)][Str(i)] = shown[1].entities[i]
              /\ Route(Str(i)).kind = shown[1].kind
              /\ Route(Str(i)).entity = Some(shown[1].entities[i])

\* C2: in every reachable session state at most one numbered selection scope
\* (class, student, concept, gap) exists; establishing a scope of any type
\* discards the scope that existed before.
C2_AtMostOneScope ==
    Cardinality({ k \in ScopeKeys : hasattr(session_state, k) }) <= 1

\* C3: a numeric input is resolved against the most recently displayed
\* listing only: a token of the latest listing resolves to an entity of that
\* listing, and any other numeric input (a token of an earlier listing
\* included) does not resolve.
C3_LatestListingOnly ==
    shown # None =>
        \A x \in NumericProbes :
            IF x \in TokensOf(shown[1].entities)
            THEN /\ Route(x).kind = shown[1].kind
                 /\ \E i \in DOMAIN shown[1].entities :
                       Route(x).entity = Some(shown[1].entities[i])
            ELSE Route(x).kind = "none"

\* an input that contains a listing trigger phrase of the session's role
has_trigger(x) ==
    IF session_state["is_teacher"]
    THEN \/ \E cmd \in ShowClassesCommands : Contains(cmd, Lower(x))
         \/ Contains("show students", Lower(x)) \/ Contains("list students", Lower(x))
    ELSE \E cmd \in ConceptListCommands \cup GapsListCommands : Contains(cmd, Lower(x))

\* an input that is a token or (up to letter case) an entity name of the
\* active scope, or for a teacher a name of the pinned roster
in_active_scope(x) ==
    \/ /\ shown # None
       /\ \/ x \in TokensOf(shown[1].entities)
          \/ /\ shown[1].kind = "class"
             /\ \E i \in DOMAIN shown[1].entities :
                   Lower(shown[1].entities[i].BatchName) = Lower(x)
          \/ /\ shown[1].kind = "student"
             /\ \E i \in DOMAIN shown[1].entities :
                   Lower(shown[1].entities[i].FullName) = Lower(x)
          \/ /\ shown[1].kind \in {"concept", "gap"}
             /\ \E i \in DOMAIN shown[1].entities :
                   Lower(shown[1].entities[i].ConceptText) = Lower(x)
    \/ /\ session_state["is_teacher"]
       /\ hasattr(session_state, "current_batch_students")
       /\ \E i \in DOMAIN session_state["current_batch_students"] :
             Lower(session_state["current_batch_students"][i].FullName) = Lower(x)

\* C4: an input that is neither a listing trigger nor a token or entity name
\* of the active scope (any numeric string when no scope exists included)
\* resolves to no entity and is forwarded to the LLM; resolution never raises.
C4_NoMatchGoesToLLM ==
    in_session =>
        \A x \in ProbeInputs :
            (~has_trigger(x) /\ ~in_active_scope(x)) =>
                /\ Route(x).route = "llm"
                /\ Route(x).kind = "none"
                /\ ~Route(x).raised

\* C5: while a student listing is the active scope, the token shown for a
\* student and that student's full name (as displayed, or in lower case)
\* resolve to the same student, whatever roster the backend returned.
C5_TokenAndNameAgree ==
    (shown # None /\ shown[1].kind = "student"
        /\ hasattr(session_state, "numbered_students")) =>
        \A k \in DOMAIN session_state["numbered_students"] :
            \A name \in { session_state["numbered_students"][k].FullName,
                          Lower(session_state["numbered_students"][k].FullName) } :
                /\ Route(k).kind = "student"
                /\ Route(k).entity = Some(session_state["numbered_students"][k])
                /\ Route(name).kind = "student"
                /\ Route(name).entity = Some(session_state["numbered_students"][k])

\* C6: a run whose roster fetch (class selection) or concept fetch (student
\* selection) fails leaves the numbered scopes and the pinned context as
\* they were and appends exactly one assistant turn.
C6_FailureLeavesContext ==
    [][ (run'.failed /\ run'.route \in {"batch", "student"}) =>
            /\ scope_and_pinned(session_state') = scope_and_pinned(session_state)
            /\ assistant_turns(chat_history') = assistant_turns(chat_history) + 1 ]_vars

\* C7: in a student session whose WeakConceptList is empty, 'my gaps' replies
\* with the 'no gaps' message and no gap scope exists, so no input resolves
\* to a gap; likewise 'list concepts' with an empty ConceptList replies with
\* the 'no concepts' message and no input resolves to a concept.
C7_EmptyListNoScope ==
    is_student_session =>
        /\ Len(session_state["auth_data"][1].WeakConceptList) = 0 =>
              /\ run.route = "list_gaps" => last_turn = Turn("assistant", NoGapsMessage)
              /\ ~hasattr(session_state, "numbered_gaps")
              /\ \A x \in ProbeInputs : Route(x).kind # "gap"
        /\ Len(session_state["auth_data"][1].ConceptList) = 0 =>
              /\ run.route = "list_concepts" => last_turn = Turn("assistant", NoConceptsMessage)
              /\ ~hasattr(session_state, "numbered_concepts")
              /\ \A x \in ProbeInputs : Route(x).kind # "concept"

\* C7 witness: 'my gaps' has just been answered in a student session without weak concepts
C7_Witness ==
    /\ is_student_session
    /\ run.event = "input" /\ run.route = "list_gaps"
    /\ Len(session_state["auth_data"][1].WeakConceptList) = 0

\* C8: the transcript is append-only during a session: every step leaves the
\* previous transcript as a prefix of the new one, except logout, which
\* empties it.
C8_AppendOnly ==
    [][ IF run'.event = "logout"
        THEN chat_history' = <<>>
        ELSE IsPrefix(chat_history, chat_history') ]_vars

\* C8 witness: a session whose transcript has grown over two inputs
C8_Witness ==
    /\ in_session
    /\ Len(chat_history) >= 5
    /\ run.event = "input"

\* C9: every user turn of the transcript is followed by exactly one assistant
\* turn: no user turn is left without a reply, and no assistant turn follows
\* another one (the greeting aside, which opens the transcript).
C9_OneReplyPerInput ==
    \A i \in DOMAIN chat_history :
        /\ chat_history[i][1] = "user" =>
              (i < Len(chat_history) /\ chat_history[i + 1][1] = "assistant")
        /\ (chat_history[i][1] = "assistant" /\ i > 1) => chat_history[i - 1][1] = "user"

\* C10: an input that is a listing trigger phrase of the session's role
\* ('show students' / 'list students' with a class pinned) is handled as that
\* listing command before any token or name resolution, and a token of an
\* existing scope is resolved to its entity before the input reaches the LLM.
C10_ListingBeforeResolution ==
    in_session =>
        \A x \in ProbeInputs :
            /\ (session_state["is_teacher"] /\ Lower(x) \in ShowClassesCommands)
                  => Route(x).route = "list_classes"
            /\ (session_state["is_teacher"]
                  /\ Lower(x) \in {"show students", "list students"}
                  /\ hasattr(session_state, "current_batch_students"))
                  => Route(x).route = "list_students"
            /\ (~session_state["is_teacher"] /\ Lower(x) \in ConceptListCommands)
                  => Route(x).route = "list_concepts"
            /\ (~session_state["is_teacher"] /\ Lower(x) \in GapsListCommands)
                  => Route(x).route = "list_gaps"
            /\ (\E kind \in (IF session_state["is_teacher"]
                             THEN {"class", "student"} ELSE {"concept", "gap"}) :
                    x \in scope_tokens(kind))
                  => Route(x).kind # "none"

\* C11: an input that equals a token of the active scope selects that token's
\* entity, even when some entity (a batch, say) has a display name equal to
\* the same string: the token match precedes every name match.
C11_TokenBeforeName ==
    shown # None =>
        \A x \in scope_tokens(shown[1].kind) \cap TokensOf(shown[1].entities) :
            /\ Route(x).kind = shown[1].kind
            /\ Route(x).entity = Some(session_state[ScopeKey(shown[1].kind)][x])

\* the roster pinned by the latest successful class selection, if any
pinned_roster(s) ==
    IF hasattr(s, "current_batch_students") THEN Some(s["current_batch_students"]) ELSE None

\* every student of the pinned roster is reached by typing the student's full
\* name while no student numbering exists
pinned_names_resolve ==
    (is_teacher_session /\ hasattr(session_state, "current_batch_students")
        /\ ~hasattr(session_state, "numbered_students")) =>
        \A i \in DOMAIN session_state["current_batch_students"] :
            /\ Route(session_state["current_batch_students"][i].FullName).kind = "student"
            /\ Route(session_state["current_batch_students"][i].FullName).entity
                   = Some(session_state["current_batch_students"][i])

\* the pinned roster changes only by a successful class selection (to the
\* roster fetched) or by logout (to none)
pinned_roster_kept ==
    pinned_roster(session_state') # pinned_roster(session_state) =>
        \/ run'.event = "logout" /\ pinned_roster(session_state') = None
        \/ /\ run'.route = "batch" /\ ~run'.failed /\ run'.listed # None
           /\ pinned_roster(session_state') = Some(run'.listed[1].entities)

\* C12: for a teacher the roster of the latest successfully selected class is
\* retained across scope changes: once the student numbering is superseded,
\* typing the full name of a student of that class still resolves to that
\* student; the pinned roster changes only on the next successful class
\* selection and is cleared only at logout.
C12_PinnedRosterRetained ==
    [][ pinned_names_resolve' /\ pinned_roster_kept ]_vars

\* the turns a step appends to the transcript
new_turns == SubSeq(chat_history', Len(chat_history) + 1, Len(chat_history'))

\* C13: when the LLM stream raises after k >= 0 content deltas, the run
\* appends exactly one assistant turn, which is the error text; nothing of
\* the partial text is committed.
C13_NoPartialCommit ==
    [][ (run'.llm # None /\ run'.llm[1].error # None) =>
            /\ IsPrefix(chat_history, chat_history')
            /\ assistant_turns(chat_history') = assistant_turns(chat_history) + 1
            /\ \A i \in DOMAIN new_turns :
                  new_turns[i][1] = "assistant" =>
                      new_turns[i][2] = error_message(run'.llm[1].error[1])
            /\ last_turn' = Turn("assistant", error_message(run'.llm[1].error[1])) ]_vars

\* C13 witness: a stream that raised after delivering a content delta
C13_Witness ==
    /\ run.llm # None
    /\ run.llm[1].error # None
    /\ \E i \in DOMAIN run.llm[1].chunks : run.llm[1].chunks[i] # None
    /\ last_turn = Turn("assistant", error_message(run.llm[1].error[1]))

\* the content deltas of a stream joined in arrival order (a chunk without
\* content contributes nothing)
RECURSIVE concat_deltas(_)
concat_deltas(chunks) ==
    IF Len(chunks) = 0 THEN ""
    ELSE concat_deltas(SubSeq(chunks, 1, Len(chunks) - 1))
             \o (IF chunks[Len(chunks)] = None THEN "" ELSE chunks[Len(chunks)][1])

\* C14: when the LLM stream ends normally, the assistant turn committed is
\* exactly the concatenation, in arrival order, of the content deltas
\* received, with nothing added (no cursor character) and nothing changed.
C14_CommitIsConcatenation ==
    (run.llm # None /\ run.llm[1].error = None) =>
        last_turn = Turn("assistant", concat_deltas(run.llm[1].chunks))

\* C14 witness: a stream of two different content deltas that ended normally
C14_Witness ==
    /\ run.llm # None
    /\ run.llm[1].error = None
    /\ run.llm[1].chunks = << Some("Hi"), Some(" there") >>
    /\ last_turn = Turn("assistant", "Hi there")

\* the first student of a roster whose full name is `name` up to letter case
first_with_name(roster, name) ==
    roster[CHOOSE i \in DOMAIN roster :
              /\ Lower(roster[i].FullName) = Lower(name)
              /\ \A j \in 1..(i - 1) : Lower(roster[j].FullName) # Lower(name)]

\* a name the router does not take for a class or a listing command
plain_name(x) ==
    /\ ~has_trigger(x)
    /\ \A i \in DOMAIN session_state["auth_data"][1].BatchList :
          Lower(session_state["auth_data"][1].BatchList[i].BatchName) # Lower(x)

\* every full name of the pinned roster resolves, while no student numbering
\* exists, to the first student of the roster bearing it
pinned_names_resolve_first ==
    (is_teacher_session /\ hasattr(session_state, "current_batch_students")
        /\ ~hasattr(session_state, "numbered_students")) =>
        \A i \in DOMAIN session_state["current_batch_students"] :
            plain_name(session_state["current_batch_students"][i].FullName) =>
                /\ Route(session_state["current_batch_students"][i].FullName).kind = "student"
                /\ Route(session_state["current_batch_students"][i].FullName).entity
                       = Some(first_with_name(session_state["current_batch_students"],
                                              session_state["current_batch_students"][i].FullName))

\* a successful class selection pins the roster it fetched
selection_pins_roster ==
    (run'.route = "batch" /\ run'.listed # None) =>
        pinned_roster(session_state') = Some(run'.listed[1].entities)

\* C12 (amended): the roster of the latest successfully selected class is
\* retained across scope changes; once the student numbering is superseded,
\* a full name of that roster (not itself a class name or a listing command)
\* resolves to the first student of the roster bearing it; the roster is set
\* by a successful class selection, changes only on the next one and is
\* cleared only at logout.
C12_PinnedRosterFirstMatch ==
    [][ pinned_names_resolve_first' /\ pinned_roster_kept /\ selection_pins_roster ]_vars

\* C12 witness: 'show classes' has superseded the student numbering of a
\* selected class whose roster is still pinned
C12_Witness ==
    /\ is_teacher_session
    /\ run.route = "list_classes"
    /\ hasattr(session_state, "current_batch_students")
    /\ Len(session_state["current_batch_students"]) > 0
    /\ ~hasattr(session_state, "numbered_students")
    /\ hasattr(session_state, "numbered_batches")

\* the run issued an LLM request
llm_called == run.route = "llm" /\ Len(run.calls) = 1

\* the messages of that request
llm_messages == run.calls[1].messages

\* the transcript as it was when the request was built: the reply is the
\* only turn appended after it
transcript_at_call == SubSeq(chat_history, 1, Len(chat_history) - 1)

\* one system message, then one message per transcript turn, in order, same
\* role, same text
messages_mirror_transcript ==
    /\ Len(llm_messages) = 1 + Len(transcript_at_call)
    /\ llm_messages[1] = [role |-> "system", content |-> get_system_prompt(session_state)]
    /\ \A i \in DOMAIN transcript_at_call :
          llm_messages[i + 1] = [role    |-> transcript_at_call[i][1],
                                 content |-> transcript_at_call[i][2]]

IdentityKeys == {"auth_data", "topic_id", "is_teacher", "user_id"}

\* C16: a session is established only by a login whose auth response has
\* statusCode 1; when enhanced_login reports failure, is_authenticated stays
\* false and auth_data, topic_id, is_teacher and user_id keep their values.
C16_FailedLoginLeavesNoSession ==
    [][ run'.event = "login" =>
            /\ ~run'.failed =>
                  /\ run'.reply[1].body # None
                  /\ run'.reply[1].body[1].statusCode = 1
                  /\ session_state'["is_authenticated"]
            /\ run'.failed =>
                  /\ ~session_state'["is_authenticated"]
                  /\ \A k \in IdentityKeys : session_state'[k] = session_state[k] ]_vars

\* what the router does with input x in the state a step leads to
RouteAfter(x) == handle_preset_prompt(session_state', client', x, None, None, NoStream)

\* what a failed run must leave in place: identity, scopes and pinned
\* context untouched, the transcript only extended, no user turn pending,
\* and every input routed as it would have been before
session_survives_failure ==
    /\ can_render(session_state')
    /\ \A k \in IdentityKeys : session_state'[k] = session_state[k]
    /\ scope_and_pinned(session_state') = scope_and_pinned(session_state)
    /\ IsPrefix(chat_history, chat_history')
    /\ ~has_pending(session_state')
    /\ \A x \in Inputs(session_state) :
          /\ RouteAfter(x).route = Route(x).route
          /\ RouteAfter(x).entity = Route(x).entity

\* C17: after a remote-call or stream failure during a listing, a selection
\* or LLM forwarding the session stays valid for the next input: identity,
\* transcript, scope and pinned context are intact, the failed input is not
\* left pending, and the next input is routed normally.
C17_SessionSurvivesFailure ==
    [][ (run'.failed /\ run'.event \in {"input", "rerun"}) =>
            session_survives_failure ]_vars

\* C18: in the gap-analyzer table no row is rendered while a fetch of the same
\* listing is still outstanding: whenever the table holds a row, every future
\* submitted for the listing has completed.
C18_JoinBeforeRender ==
    Len(tab.rows) > 0 => \A i \in DOMAIN tab.futures : tab.futures[i] # None

\* C19: no remote call is retried automatically: one script run issues each
\* gateway request at most once, and a script run that has no new user input
\* (a UI rerun) does not issue again a request that failed in the run before it.
C19_NoAutomaticRetry ==
    [][ /\ \A i, j \in DOMAIN run'.calls : run'.calls[i] = run'.calls[j] => i = j
        /\ run'.event = "rerun" /\ run.failed
              => \A i \in DOMAIN run'.calls, j \in DOMAIN run.calls :
                    run'.calls[i] # run.calls[j] ]_vars

\* the text of the exception a failed fetch caught (`e` of fetch_student_info
\* and fetch_student_concepts, shown by st.error only)
FetchError == "500 Server Error: Internal Server Error"

\* the failure reason of the request that failed in run r
failure_reason(r) == IF r.route = "llm" THEN r.llm[1].error[1] ELSE FetchError

\* C20: every failed remote call of a chat run (roster fetch, student-concept
\* fetch, LLM stream) is reported in the transcript: the run appends an
\* assistant turn as its last turn, and that turn carries the failure reason
\* of the call that failed.
C20_FailureReportedVerbatim ==
    [][ (run'.event \in {"input", "rerun"} /\ run'.failed) =>
            /\ Len(chat_history') > Len(chat_history)
            /\ last_turn'[1] = "assistant"
            /\ Contains(failure_reason(run'), last_turn'[2]) ]_vars

\* the latest run was a class selection whose roster fetch returned students
class_selected(r) == r.route = "batch" /\ r.listed # None /\ ~r.raised

\* C21: a successful class selection (by token or by name) re-lists the
\* students as a nested scope: afterwards the student numbering exists and
\* maps the tokens 1..N one-to-one onto the N students of the fetched roster,
\* the class numbering no longer exists, and the pinned roster and pinned
\* concept list are those of the answer.
C21_ClassSelectionNestsStudents ==
    class_selected(run) =>
        /\ hasattr(session_state, "numbered_students")
        /\ ~hasattr(session_state, "numbered_batches")
        /\ DOMAIN session_state["numbered_students"] = TokensOf(run.listed[1].entities)
        /\ \A i \in DOMAIN run.listed[1].entities :
              Cardinality({ k \in DOMAIN session_state["numbered_students"] :
                              session_state["numbered_students"][k]
                                  = run.listed[1].entities[i] }) = 1
        /\ session_state["current_batch_students"] = run.listed[1].entities
        /\ session_state["current_batch_concepts"] = ClassConcepts

\* C21 witness: a class was selected by its token while the class numbering
\* existed, the roster of two students is listed and the class numbering is gone
C21_Witness ==
    /\ class_selected(run)
    /\ run.input = Some("1")
    /\ Len(run.listed[1].entities) = 2
    /\ hasattr(session_state, "numbered_students")
    /\ ~hasattr(session_state, "numbered_batches")

\* the latest run is a student's input that resolved to a concept or a gap
concept_resolved == run.event = "input" /\ run.kind \in {"concept", "gap"}

\* the prompt the router puts in place of the token of the resolved entity
rewritten_prompt ==
    IF run.kind = "concept"
    THEN "Can you explain the concept of " \o run.entity[1].ConceptText \o "?"
    ELSE "Help me understand " \o run.entity[1].ConceptText

C23_LogoutDestroysSession ==
    run.event = "logout" =>
        /\ ~session_state["is_authenticated"]
        /\ session_state["auth_data"] = None
        /\ session_state["chat_history"] = <<>>
        /\ \A k \in ScopeKeys \cup {"current_batch_students", "current_batch_concepts"} :
              ~hasattr(session_state, k)
        /\ session_state["selected_student"] = None
        /\ session_state["student_learning_paths"] = <<>>
        /\ session_state["user_id"] = None
        /\ DOMAIN session_state = DOMAIN InitDefaults([k \in {} |-> None])
        /\ shown = None

\* C23 witness: a logout has just been handled
C23_Witness ==
    /\ run.event = "logout"
    /\ ~in_session
    /\ session_state["chat_history"] = <<>>

\* C24: in a teacher session the class numbering and the student numbering
\* are never both present.
C24_ClassAndStudentScopesExclusive ==
    is_teacher_session =>
        ~(hasattr(session_state, "numbered_batches")
            /\ hasattr(session_state, "numbered_students"))

\* C24 witness: a class selection failed while the student numbering of an
\* earlier selection existed; the numbering stays and no class numbering exists
C24_Witness ==
    /\ is_teacher_session
    /\ run.route = "batch" /\ run.failed
    /\ hasattr(session_state, "numbered_students")
    /\ ~hasattr(session_state, "numbered_batches")

\* the latest run showed a student listing to a teacher
students_listed ==
    /\ run.event \in {"input", "rerun"} /\ ~run.raised
    /\ \/ run.route = "batch" /\ run.listed # None
       \/ run.route = "list_students"

\* what a student listing prints for a student numbered k, up to the line end
printed_label(k, student) ==
    k \o ". " \o student.FullName
      \o (IF is_in_progress(student) THEN progress_info(student) ELSE "") \o "\n"

\* C25: in every student listing shown to a teacher (by a class selection or
\* by 'show students') the number printed next to a student is the token that
\* the numbering created by that listing maps to that student: the tokens are
\* 1..N, the row of each token's student is in the reply with that number,
\* and no student of the roster is printed with the number of another one.
C25_PrintedNumberIsToken ==
    students_listed =>
        /\ last_turn[1] = "assistant"
        /\ hasattr(session_state, "numbered_students")
        /\ DOMAIN session_state["numbered_students"]
              = TokensOf(session_state["current_batch_students"])
        /\ \A k \in DOMAIN session_state["numbered_students"] :
              /\ Contains(printed_label(k, session_state["numbered_students"][k]),
                          last_turn[2])
              /\ \A i \in DOMAIN session_state["current_batch_students"] :
                    Contains(printed_label(k, session_state["current_batch_students"][i]),
                             last_turn[2])
                        => printed_label(k, session_state["current_batch_students"][i])
                              = printed_label(k, session_state["numbered_students"][k])

\* C25 witness: 'show students' listed a roster whose second student is in an
\* earlier progress group than the first, so the rows are not in token order
C25_Witness ==
    /\ students_listed
    /\ run.route = "list_students"
    /\ Len(session_state["current_batch_students"]) = 2
    /\ is_in_progress(session_state["current_batch_students"][1])
    /\ is_completed(session_state["current_batch_students"][2])

\* the remedial requests issued so far by the latest run of the tabbed screen
remedial_calls ==
    SelectSeq(tab.calls, LAMBDA c : c.api = "WeakConcept_Remedy_List_ByConceptID")

\* C26: in the gap-analyzer listing, whatever the order in which the workers
\* complete, no concept is rendered twice, every row shows the concept it was
\* produced for, when the listing is finished every concept of the list has
\* exactly one row, a remedial request is issued only for a concept whose
\* status is Weak or Not-Attended (at most one per concept), and a Cleared
\* concept shows the placeholder '-'.
C26_OneRowPerConcept ==
    (tab.selection = "Gap Analyzer" /\ tab.all_concepts # <<>>) =>
        /\ \A j, k \in DOMAIN tab.rows : tab.rows[j].index = tab.rows[k].index => j = k
        /\ \A k \in DOMAIN tab.rows :
              /\ tab.rows[k].index \in DOMAIN tab.all_concepts
              /\ tab.rows[k].row.concept_text
                    = tab.all_concepts[tab.rows[k].index].ConceptText
              /\ tab.rows[k].row.status
                    = tab.all_concepts[tab.rows[k].index].ConceptStatus
              /\ tab.rows[k].row.status = "Cleared" => tab.rows[k].row.remedial = "-"
        /\ tab.pc = "idle" =>
              { tab.rows[k].index : k \in DOMAIN tab.rows } = DOMAIN tab.all_concepts
        /\ \A c \in DOMAIN remedial_calls :
              /\ \E i \in DOMAIN tab.all_concepts :
                    /\ tab.all_concepts[i].ConceptID = remedial_calls[c].id
                    /\ tab.all_concepts[i].ConceptStatus \in {"Weak", "Not-Attended"}
              /\ \A d \in DOMAIN remedial_calls :
                    remedial_calls[c].id = remedial_calls[d].id => c = d

\* C26 witness: the listing of a Weak and a Cleared concept is finished, the
\* second concept was rendered first, and one remedial request was issued
C26_Witness ==
    /\ tab.selection = "Gap Analyzer" /\ tab.pc = "idle"
    /\ Len(tab.rows) = 2
    /\ tab.rows[1].index = 2
    /\ tab.all_concepts[1].ConceptStatus = "Weak"
    /\ tab.all_concepts[2].ConceptStatus = "Cleared"
    /\ Len(remedial_calls) = 1

\* the BatchID of the batch the selector showed in the run that led to dash'
selected_batch_id_after ==
    batch_option(session_state["auth_data"][1].BatchList, dash'.batch_selector[1]).BatchID

\* C27: in the teacher dashboard the concept data of a batch is fetched
\* exactly when the selected batch differs from the recorded one; the run that
\* fetches records the batch, whatever the outcome of the fetch, so a rerun
\* with the same batch issues no request and leaves the stored data as it is
\* (the empty result after a failed fetch included).
C27_FetchOnBatchChange ==
    [][ (dash'.runs = dash.runs + 1 /\ dash'.batch_selector # None) =>
            /\ dash'.calls # <<>> <=> dash.selected_batch_id # Some(selected_batch_id_after)
            /\ dash'.selected_batch_id = Some(selected_batch_id_after)
            /\ dash'.calls # <<>> =>
                  /\ dash'.calls[1].api = "API_STUDENT_INFO"
                  /\ dash'.calls[1].id = selected_batch_id_after
            /\ dash'.calls = <<>> =>
                  dash'.teacher_weak_concepts = dash.teacher_weak_concepts ]_vars

\* C27 witness: a rerun with the batch whose fetch stored the empty result:
\* the batch is recorded, no request was issued and the data is still empty
C27_Witness ==
    /\ dash.runs >= 2
    /\ dash.batch_selector # None
    /\ dash.selected_batch_id # None
    /\ dash.calls = <<>>
    /\ dash.teacher_weak_concepts = <<>>

learning_paths == session_state["student_learning_paths"]

\* the chat completion requests of the latest run of the tabbed screen
path_calls == SelectSeq(tab.calls, LAMBDA c : c.api = "chat.completions")

\* C28: a learning path is generated at most once per concept per session: a
\* press of the button of a concept whose path is stored issues no LLM call
\* and changes nothing; otherwise one call is issued (when the client
\* exists) and the path is stored exactly when the call returned a text, so
\* a failed generation leaves no entry and the next press generates again;
\* no step overwrites or removes a stored entry.
C28_LearningPathOncePerConcept ==
    [][ /\ \A k \in DOMAIN learning_paths :
              k \in DOMAIN learning_paths' /\ learning_paths'[k] = learning_paths[k]
        /\ DOMAIN learning_paths' # DOMAIN learning_paths =>
              tab'.clicked # None /\ tab'.runs = tab.runs + 1
        /\ (tab'.clicked # None /\ tab'.runs = tab.runs + 1) =>
              /\ tab'.clicked[1].concept.ConceptID \in DOMAIN learning_paths =>
                    path_calls' = <<>> /\ learning_paths' = learning_paths
              /\ tab'.clicked[1].concept.ConceptID \notin DOMAIN learning_paths =>
                    /\ Len(path_calls') = IF client THEN 1 ELSE 0
                    /\ DOMAIN learning_paths' \subseteq
                          DOMAIN learning_paths \cup {tab'.clicked[1].concept.ConceptID}
                    /\ tab'.clicked[1].concept.ConceptID \in DOMAIN learning_paths'
                          <=> /\ client
                              /\ tab'.clicked[1].response # None
                              /\ tab'.clicked[1].response[1] # ""
                    /\ tab'.clicked[1].concept.ConceptID \in DOMAIN learning_paths' =>
                          learning_paths'[tab'.clicked[1].concept.ConceptID]
                              = [concept_text |-> tab'.clicked[1].concept.ConceptText,
                                 learning_path |-> tab'.clicked[1].response[1]] ]_vars

\* C28 witness: the button of a concept whose path was stored by the run
\* before is pressed again: no call is issued and the entry is still there
C28_Witness ==
    /\ client
    /\ tab.runs = 2
    /\ tab.clicked # None
    /\ tab.clicked[1].concept.ConceptID \in DOMAIN learning_paths
    /\ path_calls = <<>>

\* C29: in the document assistant every user message of the history is
\* followed by exactly one assistant message before the next user message,
\* whatever the outcome of the response generation: after every run the
\* history alternates user, assistant and ends with an assistant message;
\* the history passed to the model holds at most 10 messages and is empty for
\* the first prompt of a session.
C29_OneAssistantPerUserMessage ==
    /\ \A i \in DOMAIN doc.messages :
          doc.messages[i].role = IF i % 2 = 1 THEN "user" ELSE "assistant"
    /\ Len(doc.messages) % 2 = 0
    /\ doc.request # None =>
          /\ Len(doc.request[1].conversation_history) <= 10
          /\ user_messages(doc) = 1 => doc.request[1].conversation_history = <<>>

\* C30: in the document assistant, after Clear Document is pressed the stored
\* document content is empty, and an empty document content stays empty over
\* every later run that is not a new upload (a prompt, a removal, another
\* press), the file still present in the uploader notwithstanding; the
\* document passed to the model for such a prompt is empty.
C30_ClearedStaysCleared ==
    [][ /\ doc'.event = "clear" => doc'.document_content = ""
        /\ (doc.document_content = "" /\ doc'.event \in {"prompt", "clear", "remove"}) =>
              /\ doc'.document_content = ""
              /\ doc'.request # None => doc'.request[1].document_content = "" ]_vars

====
